---- MODULE Spec2Model ----
(***************************************************************************)
(* Behaviour-oriented concurrency (homework/src/boc.rs).                   *)
(*                                                                         *)
(* Cowns are numbered by their address order (Arc::as_ptr), behaviours by  *)
(* the order of their construction.  A request is the pair <<b, i>>: the   *)
(* i-th element of behaviour b's sorted `requests` vector.  Every SeqCst   *)
(* atomic operation of the source is one step of the model; a spin loop is *)
(* a step that is enabled once the awaited value is visible.               *)
(***************************************************************************)
EXTENDS Integers, Sequences, FiniteSets, TLC

\* ---------------------------------------------------------------- bounds
NumCowns == 2
MaxBehaviors == 3
NumThreads == 2
\* Behaviours in the runs that follow the strong counts of the cowns.
MaxArcBehaviors == 2
\* Thread pool: worker threads (the `size` of ThreadPool::new), jobs executed.
NumWorkers == 2
MaxJobs == 3
\* Cache: threads (each makes one get_or_insert_with call), keys.
NumCallers == 3
NumKeys == 2
\* List set: threads, calls per thread, keys 1 .. MaxKey.
NumSetThreads == 2
MaxOps == 2
MaxKey == 3
\* Growable array: threads, get calls per thread, indices 0 .. MaxIndex, and
\* the logarithm of the segment size (10 in the source, reduced here so that
\* small indices need two and three levels).
NumGetters == 2
MaxGets == 2
MaxIndex == 4
SEGMENT_LOGSIZE == 1
\* Split-ordered list: keys 1 .. NumMapKeys, values 1 .. NumValues, calls.
NumMapKeys == 2
NumValues == 2
MaxMapOps == 3

\* AtomicUsize arithmetic wraps; the width is reduced to 16 bits.
UsizeMod == 2 ^ 16

Cowns == 1 .. NumCowns
Beh == 1 .. MaxBehaviors
Threads == 1 .. NumThreads
NoBeh == 0
NullReq == <<0, 0>>
ReqIds == Beh \X (1 .. NumCowns)

\* A caller of run_when: thread t is -t, the body of behaviour b is b.
ThreadCallers == {0 - t : t \in Threads}

VARIABLES
    nb,         \* number of behaviours constructed so far
    requests,   \* Behavior.requests: targets of the requests, per behaviour
    count,      \* Behavior.count
    caller,     \* who called run_when for the behaviour
    spc,        \* position of the caller inside Behavior::schedule
    si,         \* index of the request schedule is working on
    prev,       \* local `prev` of start_enqueue
    last,       \* Cown.last
    next,       \* Request.next
    scheduled,  \* Request.scheduled
    epc,        \* position of the spawned task (thunk, then the release loop)
    ei,         \* index of the request the task is working on
    value,      \* Cown.value
    order,      \* history: behaviours in the order of their swaps into last
    wrote,      \* history: behaviours whose body has written the cown
    spawns,     \* history: times the thunk was handed to the executor
    ones,       \* history: fetch_sub calls on count that returned 1
    runs,       \* history: times the body was started
    released,   \* history: requests whose release call has returned
    pred,       \* history: what the swap of each request returned
    woke,       \* history: the behaviour each release call resolved
    strong,     \* strong count of the Arc<Cown> of each cown (0: destroyed)
    held,       \* the threads still hold a CownPtr to the cown
    cap,        \* the cowns whose CownPtr the closure of a behaviour captured
    selfDecs,   \* history: decrements of count by the request's own start_enqueue
    predDecs,   \* history: decrements of count for the request by a release
    swaps,      \* history: the cowns each behaviour swapped into, in order
    relOrder,   \* history: the requests each behaviour released, in order
    aborted     \* the process was aborted by a panic in a spawned task

bocVars == <<nb, requests, count, caller, spc, si, prev, last, next,
             scheduled, epc, ei, value, order, wrote, spawns, ones, runs,
             released, pred, woke, strong, held, cap, selfDecs, predDecs,
             swaps, relOrder, aborted>>

\* Thread pool (homework/src/hello_server/thread_pool.rs).  Jobs are numbered
\* in the order of the execute calls; workers by their index in `_workers`.
Workers == 1 .. NumWorkers
Jobs == 1 .. MaxJobs
NoJob == 0

VARIABLES
    chan,       \* the jobs in the channel, oldest first
    sender,     \* ThreadPool.job_sender is Some (the channel is connected)
    jobCount,   \* ThreadPoolInner.job_count
    wpc,        \* position of each worker thread in its loop
    wjob,       \* the job a worker has received
    sent,       \* number of execute calls so far
    ppc,        \* position of the thread that owns the pool
    joined,     \* Drop: number of workers whose JoinHandle has been joined
    execs,      \* history: times each job was run
    ranBy,      \* history: the workers that ran each job
    atJoin,     \* history: number of execute calls before the current join
    unfinished, \* history: jobs executed before a join, not run at its return
    atDrop      \* history: jobs in the channel when the pool was dropped

poolVars == <<chan, sender, jobCount, wpc, wjob, sent, ppc, joined, execs,
              ranBy, atJoin, unfinished, atDrop>>

\* Cache (homework/src/hello_server/cache.rs).  The value lock a call creates
\* is named after the calling thread; the closure of thread t returns t.
CacheThreads == 1 .. NumCallers
Keys == 1 .. NumKeys
NoThread == 0
NoSlot == 0
NoValue == 0

VARIABLES
    mapW,       \* the thread that holds the write lock of Cache.inner
    entries,    \* the HashMap: the value lock stored under each key
    slotVal,    \* the Option<V> inside each value lock
    slotW,      \* the thread that holds the write lock of each value lock
    cpc,        \* position of each thread in get_or_insert_with
    ckey,       \* the key of the call
    cslot,      \* the value lock the call took from the map
    cret,       \* the value the call returned
    fcalls,     \* history: the threads whose closure was called, per key
    missed,     \* history: threads whose first lookup found no entry
    waited      \* history: threads that found their value lock write-held

cacheVars == <<mapW, entries, slotVal, slotW, cpc, ckey, cslot, cret, fcalls,
               missed, waited>>

\* Fine-grained list set (homework/src/list_set/fine_grained.rs).  Nodes are
\* numbered in the order of their allocation; mutex 0 is `head`, mutex n is
\* the `next` field of node n.
SetThreads == 1 .. NumSetThreads
SetKeys == 1 .. MaxKey
MaxNodes == NumSetThreads * MaxOps
Nodes == 1 .. MaxNodes
NullNode == 0
HeadCell == 0
Cells == {HeadCell} \cup Nodes
Unlocked == 0

VARIABLES
    nnext,      \* the pointer inside each mutex (head, Node.next)
    data,       \* Node.data
    lockedBy,   \* the thread that holds each mutex
    alloc,      \* number of nodes allocated so far
    freed,      \* nodes whose Box has been dropped
    lpc,        \* position of each thread in its call
    lop,        \* the operation called
    lkey,       \* its key
    cursor,        \* the mutex whose guard the thread's cursor holds
    lret,       \* the result of the thread's last call
    ldone,      \* number of calls the thread has completed
    wasAbsent   \* the key of the thread's call has been missing from the list
                \* at some moment since the call

setVars == <<nnext, data, lockedBy, alloc, freed, lpc, lop, lkey, cursor, lret,
             ldone, wasAbsent>>

\* Growable array (homework/src/hash_table/growable_array.rs).  Segments are
\* numbered in the order in which they are linked into the tree; a pointer to
\* a segment is <<segment, tag>>, the tag being the height of the segment.
Getters == 1 .. NumGetters
Indices == 0 .. MaxIndex
SegmentSize == 2 ^ SEGMENT_LOGSIZE
Digits == 0 .. (SegmentSize - 1)
NullSeg == <<0, 0>>
NoAtomic == <<0, 0>>

VARIABLES
    root,       \* GrowableArray.root
    segs,       \* the children of every segment linked so far
    gpc,        \* position of each thread in its get call
    gindex,     \* the index of the call
    gvec,       \* index_seg_vec
    rootSeg,    \* root_seg of increase_height_to_needed / find_suitable_root
    seg,        \* seg of get
    gpos,       \* position of the for loop in index_seg_vec
    gcalls,     \* number of calls the thread has made
    got         \* <<index, slot returned, height of the root at the return>>

arrayVars == <<root, segs, gpc, gindex, gvec, rootSeg, seg, gpos, gcalls, got>>

\* Optimistic list set (homework/src/list_set/optimistic_fine_grained.rs),
\* with the threads, calls and keys of the fine-grained list set.  Cell 0 is
\* `head`, cell n the `next` field of node n; each cell is a SeqLock around
\* an Atomic pointer.
VARIABLES
    onext,      \* the pointer inside each SeqLock (head, Node.next)
    oseq,       \* the sequence number of each SeqLock (odd: write-locked)
    odata,      \* Node.data
    oalloc,     \* number of nodes allocated so far
    opc,        \* position of each thread in its call
    oop,        \* the operation called
    okey,       \* its key
    otarget,    \* the cell whose read_lock the thread is calling
    oprev,      \* cursor.prev: the cell of the cursor's ReadGuard
    opseq,      \* the sequence number that guard has read
    ocurr,      \* cursor.curr
    oret,       \* the result of the thread's last call
    odone,      \* number of calls the thread has completed
    oAbsent,    \* the key of the call was missing from the list at some
                \* moment since the call
    oPresent    \* the key of the call was in the list at some moment since
                \* the call

optVars == <<onext, oseq, odata, oalloc, opc, oop, okey, otarget, oprev, opseq,
             ocurr, oret, odone, oAbsent, oPresent>>

\* Split-ordered list (homework/src/hash_table/split_ordered_list.rs), called
\* by one thread.  The lock-free list is the function from its keys to the
\* values of its nodes.
LOAD_FACTOR == 2
INITIAL_SIZE == 2
MapKeys == 1 .. NumMapKeys
MapValues == 1 .. NumValues
ListDomain == 1 .. (NumMapKeys + LOAD_FACTOR * INITIAL_SIZE)
NoEntry == 0
Uninit == NumValues + 1

VARIABLES
    slist,      \* SplitOrderedList.list: key -> value of its node, or NoEntry
    sbuckets,   \* the pointers in the slots of SplitOrderedList.buckets
    ssize,      \* SplitOrderedList.size
    scount,     \* SplitOrderedList.count
    sres,       \* the result of the last call
    snops,      \* number of calls made
    amap,       \* the map the calls made so far describe
    sexp        \* the result of the last call on that map

splitVars == <<slist, sbuckets, ssize, scount, sres, snops, amap, sexp>>

vars == <<bocVars, poolVars, cacheVars, setVars, arrayVars, optVars, splitVars>>

\* What the steps of one part of the repository leave alone.
nonBoc == <<poolVars, cacheVars, setVars, arrayVars, optVars,
    splitVars>>
nonPool == <<bocVars, cacheVars, setVars, arrayVars, optVars,
    splitVars>>
nonCache == <<bocVars, poolVars, setVars, arrayVars, optVars,
    splitVars>>
nonSet == <<bocVars, poolVars, cacheVars, arrayVars, optVars,
    splitVars>>
nonArray == <<bocVars, poolVars, cacheVars, setVars, optVars,
    splitVars>>
nonOpt == <<bocVars, poolVars, cacheVars, setVars, arrayVars, splitVars>>
nonSplit == <<bocVars, poolVars, cacheVars, setVars, arrayVars, optVars>>

\* ------------------------------------------------------------- helpers
RECURSIVE SeqsUpTo(_, _)
SeqsUpTo(S, n) ==
    IF n = 0 THEN {<<>>}
    ELSE LET shorter == SeqsUpTo(S, n - 1)
         IN shorter \cup {Append(s, x) : s \in {t \in shorter : Len(t) = n - 1}, x \in S}

Range(s) == {s[i] : i \in 1 .. Len(s)}
NoDup(s) == Cardinality(Range(s)) = Len(s)

\* The groups of handles a caller can pass: any listing order.
Groups == {s \in SeqsUpTo(Cowns, NumCowns) : NoDup(s)}
DupGroups == {s \in SeqsUpTo(Cowns, NumCowns) : ~NoDup(s)}

\* impl Ord for Request: by the address of the target.
RequestLess(c, d) == c < d

\* Vec::sort (stable) under RequestLess, as an insertion sort.
RECURSIVE InsertSorted(_, _)
InsertSorted(s, x) ==
    IF s = <<>> THEN <<x>>
    ELSE IF RequestLess(x, Head(s)) THEN <<x>> \o s
    ELSE <<Head(s)>> \o InsertSorted(Tail(s), x)

RECURSIVE SortFrom(_, _)
SortFrom(done, rest) ==
    IF rest = <<>> THEN done
    ELSE SortFrom(InsertSorted(done, Head(rest)), Tail(rest))

\* (Faulty variant: the sort is left out.)
Unsorted(cs) == cs
SortRequests(cs) == SortFrom(<<>>, cs)

\* Behavior::new: count = requests.len() + 1.
\* (Faulty variant: the unit reserved for schedule itself is left out.)
NoExtraUnit(n) == n
InitialCount(n) == n + 1

\* count.fetch_sub(1, SeqCst): the new value.
FetchSub(old) == (old - 1) % UsizeMod

\* resolve_one: `if fetch_sub(..) != 1 { return; }`
\* (Faulty variant: the thunk is spawned by every decrement of a live count.)
ThunkDueNonZero(old) == old # 0
ThunkDue(old) == old = 1

\* start_enqueue: `if let Some(prev) = prev { .. return; }` else resolve_one.
\* (Faulty variant: the request is granted whatever the swap returned.)
GrantedAlways(p) == TRUE
Granted(p) == p = NullReq

\* release: compare_exchange(self, null) on last succeeds.
\* (Faulty variant: last is reset without comparing.)
CasBlind(cur, me) == TRUE
CasSucceeds(cur, me) == cur = me

\* start_enqueue: `while !prev.scheduled.load(SeqCst) { spin_loop() }` ends.
\* (Faulty variants: the spin waits for the release of prev; there is no spin.)
SpinOnRelease(p) == p \in released
SpinSkipped(p) == TRUE
SpinDone(p) == scheduled[p]

NumRequests(b) == Len(requests[b])

\* The request of behaviour b that targets cown c (its first one).
RequestOn(b, c) ==
    <<b, CHOOSE i \in 1 .. Len(requests[b]) :
            /\ requests[b][i] = c
            /\ \A j \in 1 .. i - 1 : requests[b][j] # c>>
Created(b) == b \in 1 .. nb

\* How many elements of the group cs name cown x.
Occurrences(cs, x) == Cardinality({i \in 1 .. Len(cs) : cs[i] = x})

\* Request.target is an Arc: k requests on a cown hold k strong references.
\* (Faulty variant: the target is kept as a plain pointer.)
TargetUncounted(k) == 0
TargetRefs(k) == k

\* The cowns caller c has a CownPtr to: those the threads still hold, or those
\* the closure of the body captured.
Access(c) == IF c \in ThreadCallers THEN {x \in Cowns : held[x]} ELSE cap[c]

\* The run_when calls of caller c have all returned.
CallsReturned(c) == \A k \in 1 .. nb : caller[k] = c => spc[k] = "returned"

\* Caller c is at a point of its program where it can call run_when: a thread
\* between two calls (threads are numbered in the order of their first call),
\* or a body after its writes (as in the test boc).
CallerFree(c) ==
    /\ CallsReturned(c)
    /\ \/ /\ c \in ThreadCallers
          /\ c = 0 - 1 \/ \E k \in 1 .. nb : caller[k] = c + 1
       \/ /\ c \in 1 .. nb
          /\ epc[c] = "body"
          /\ ei[c] > NumRequests(c)

\* ------------------------------------------------------------- initial state
\* ThreadPool::new(NumWorkers): every worker is about to call recv.
PoolInit ==
    /\ chan = <<>>
    /\ sender = TRUE
    /\ jobCount = 0
    /\ wpc = [w \in Workers |-> "recv"]
    /\ wjob = [w \in Workers |-> NoJob]
    /\ sent = 0
    /\ ppc = "idle"
    /\ joined = 0
    /\ execs = [j \in Jobs |-> 0]
    /\ ranBy = [j \in Jobs |-> {}]
    /\ atJoin = 0
    /\ unfinished = {}
    /\ atDrop = 0

\* Cache::default(): an empty map, no call in progress.
CacheInit ==
    /\ mapW = NoThread
    /\ entries = [k \in Keys |-> NoSlot]
    /\ slotVal = [s \in CacheThreads |-> NoValue]
    /\ slotW = [s \in CacheThreads |-> NoThread]
    /\ cpc = [t \in CacheThreads |-> "idle"]
    /\ ckey = [t \in CacheThreads |-> 0]
    /\ cslot = [t \in CacheThreads |-> NoSlot]
    /\ cret = [t \in CacheThreads |-> NoValue]
    /\ fcalls = [k \in Keys |-> {}]
    /\ missed = {}
    /\ waited = {}

\* FineGrainedListSet::new(): an empty list, no call in progress.
SetInit ==
    /\ nnext = [c \in Cells |-> NullNode]
    /\ data = [n \in Nodes |-> 0]
    /\ lockedBy = [c \in Cells |-> Unlocked]
    /\ alloc = 0
    /\ freed = {}
    /\ lpc = [t \in SetThreads |-> "idle"]
    /\ lop = [t \in SetThreads |-> "none"]
    /\ lkey = [t \in SetThreads |-> 0]
    /\ cursor = [t \in SetThreads |-> HeadCell]
    /\ lret = [t \in SetThreads |-> FALSE]
    /\ ldone = [t \in SetThreads |-> 0]
    /\ wasAbsent = [t \in SetThreads |-> FALSE]

\* OptimisticFineGrainedListSet::new(): an empty list, every SeqLock at 0, no
\* call in progress.
OptInit ==
    /\ onext = [c \in Cells |-> NullNode]
    /\ oseq = [c \in Cells |-> 0]
    /\ odata = [n \in Nodes |-> 0]
    /\ oalloc = 0
    /\ opc = [t \in SetThreads |-> "idle"]
    /\ oop = [t \in SetThreads |-> "none"]
    /\ okey = [t \in SetThreads |-> 0]
    /\ otarget = [t \in SetThreads |-> HeadCell]
    /\ oprev = [t \in SetThreads |-> HeadCell]
    /\ opseq = [t \in SetThreads |-> 0]
    /\ ocurr = [t \in SetThreads |-> NullNode]
    /\ oret = [t \in SetThreads |-> FALSE]
    /\ odone = [t \in SetThreads |-> 0]
    /\ oAbsent = [t \in SetThreads |-> FALSE]
    /\ oPresent = [t \in SetThreads |-> FALSE]

\* SplitOrderedList::new(): an empty list, no bucket, size 2, count 0.
SplitInit ==
    /\ slist = [k \in ListDomain |-> NoEntry]
    /\ sbuckets = [k \in ListDomain |-> NullNode]
    /\ ssize = INITIAL_SIZE
    /\ scount = 0
    /\ sres = <<"none", 0>>
    /\ snops = 0
    /\ amap = [k \in MapKeys |-> NoEntry]
    /\ sexp = <<"none", 0>>

\* GrowableArray::new(): a null root, no call in progress.
ArrayInit ==
    /\ root = NullSeg
    /\ segs = <<>>
    /\ gpc = [t \in Getters |-> "idle"]
    /\ gindex = [t \in Getters |-> 0]
    /\ gvec = [t \in Getters |-> <<>>]
    /\ rootSeg = [t \in Getters |-> NullSeg]
    /\ seg = [t \in Getters |-> NullSeg]
    /\ gpos = [t \in Getters |-> 0]
    /\ gcalls = [t \in Getters |-> 0]
    /\ got = {}

BocInit ==
    /\ nb = 0
    /\ requests = [b \in Beh |-> <<>>]
    /\ count = [b \in Beh |-> 0]
    /\ caller = [b \in Beh |-> 0]
    /\ spc = [b \in Beh |-> "none"]
    /\ si = [b \in Beh |-> 0]
    /\ prev = [b \in Beh |-> NullReq]
    /\ last = [c \in Cowns |-> NullReq]
    /\ next = [r \in ReqIds |-> NoBeh]
    /\ scheduled = [r \in ReqIds |-> FALSE]
    /\ epc = [b \in Beh |-> "none"]
    /\ ei = [b \in Beh |-> 0]
    /\ value = [c \in Cowns |-> 0]
    /\ order = [c \in Cowns |-> <<>>]
    /\ wrote = [c \in Cowns |-> {}]
    /\ spawns = [b \in Beh |-> 0]
    /\ ones = [b \in Beh |-> 0]
    /\ runs = [b \in Beh |-> 0]
    /\ released = {}
    /\ pred = [r \in ReqIds |-> NullReq]
    /\ woke = [r \in ReqIds |-> NoBeh]
    /\ strong = [c \in Cowns |-> 1]
    /\ held = [c \in Cowns |-> TRUE]
    /\ cap = [b \in Beh |-> {}]
    /\ selfDecs = [r \in ReqIds |-> 0]
    /\ predDecs = [r \in ReqIds |-> 0]
    /\ swaps = [b \in Beh |-> <<>>]
    /\ relOrder = [b \in Beh |-> <<>>]
    /\ aborted = FALSE

Init ==
    /\ BocInit /\ PoolInit /\ CacheInit /\ SetInit /\ ArrayInit /\ OptInit
    /\ SplitInit

\* ------------------------------------------------------------- resolve_one
\* Behavior::resolve_one(this), called by a step that leaves the task
\* positions at epcBase: one fetch_sub, and the spawn when it returned 1.
ResolveOne(this, epcBase) ==
    LET old == count[this] IN
    /\ count' = [count EXCEPT ![this] = FetchSub(old)]
    /\ ones' = [ones EXCEPT ![this] = @ + (IF old = 1 THEN 1 ELSE 0)]
    /\ IF ThunkDue(old)
       THEN /\ spawns' = [spawns EXCEPT ![this] = @ + 1]
            /\ epc' = [epcBase EXCEPT ![this] = IF @ = "none" THEN "spawned" ELSE @]
       ELSE /\ spawns' = spawns
            /\ epc' = epcBase

\* ------------------------------------------------------------- run_when
\* Where schedule goes after start_enqueue of request i has returned.
\* (Faulty variant: one loop, finish_enqueue follows each start_enqueue.)
SinglePhase(b, i) == <<"finish", i>>
AfterStartEnqueue(b, i) ==
    IF i < NumRequests(b) THEN <<"swap", i + 1>> ELSE <<"finish", 1>>

\* when!(cs..; ..; thunk): the handles of cs are cloned into the group, the
\* closure has captured handles of the cowns cp; then run_when(cowns, f):
\* Behavior::new, and schedule up to its first loop.
SubmitWith(c, cs, cp) ==
    LET b == nb + 1
        rs == SortRequests(cs)
    IN
    /\ ~aborted
    /\ nb < MaxBehaviors
    /\ CallerFree(c)
    /\ Range(cs) \subseteq Access(c)
    /\ cp \subseteq Access(c)
    /\ strong' = [x \in Cowns |->
            strong[x] + Occurrences(cs, x) + TargetRefs(Occurrences(cs, x))
                + (IF x \in cp THEN 1 ELSE 0)]
    /\ cap' = [cap EXCEPT ![b] = cp]
    /\ nb' = b
    /\ requests' = [requests EXCEPT ![b] = rs]
    /\ count' = [count EXCEPT ![b] = InitialCount(Len(rs))]
    /\ caller' = [caller EXCEPT ![b] = c]
    /\ spc' = [spc EXCEPT ![b] = IF Len(rs) = 0 THEN "final" ELSE "swap"]
    /\ si' = [si EXCEPT ![b] = 1]
    /\ UNCHANGED <<prev, last, next, scheduled, epc, ei, value, order, wrote,
                   spawns, ones, runs, aborted, released, pred, woke, held,
                   selfDecs, predDecs, swaps, relOrder,
                   nonBoc>>

\* The closure captures a handle of every cown its caller has one of.
Submit(c, cs) == SubmitWith(c, cs, Access(c))

RunWhen(c, cs) == cs \in Groups /\ Submit(c, cs)

\* A group that names a cown twice, e.g. when!(c, c; ..).
RunWhenDup(c, cs) == cs \in DupGroups /\ Submit(c, cs)

\* start_enqueue: last().swap(self)
StartEnqueueSwap(b) ==
    LET i == si[b]
        c == requests[b][i]
        p == last[c]
    IN
    /\ ~aborted
    /\ spc[b] = "swap"
    /\ last' = [last EXCEPT ![c] = <<b, i>>]
    /\ prev' = [prev EXCEPT ![b] = p]
    /\ pred' = [pred EXCEPT ![<<b, i>>] = p]
    /\ swaps' = [swaps EXCEPT ![b] = Append(@, c)]
    /\ order' = [order EXCEPT ![c] = Append(@, b)]
    /\ spc' = [spc EXCEPT ![b] = IF Granted(p) THEN "grant" ELSE "spin"]
    /\ UNCHANGED <<nb, requests, count, caller, si, next, scheduled, epc, ei,
                   value, wrote, spawns, ones, runs, aborted, released, woke,
                   held, cap, strong, selfDecs, predDecs, relOrder,
                   nonBoc>>

\* start_enqueue: the spin loop on prev.scheduled is left
StartEnqueueSpin(b) ==
    /\ ~aborted
    /\ spc[b] = "spin"
    /\ SpinDone(prev[b])
    /\ spc' = [spc EXCEPT ![b] = "store"]
    /\ UNCHANGED <<nb, requests, count, caller, si, prev, last, next, scheduled,
                   epc, ei, value, order, wrote, spawns, ones, runs, aborted,
                   released, pred, woke, held, cap, strong, selfDecs, predDecs, swaps, relOrder,
                   nonBoc>>

\* start_enqueue: prev.next.store(behavior); return (the local prev dies)
StartEnqueueStore(b) ==
    LET to == AfterStartEnqueue(b, si[b]) IN
    /\ ~aborted
    /\ spc[b] = "store"
    /\ next' = [next EXCEPT ![prev[b]] = b]
    /\ prev' = [prev EXCEPT ![b] = NullReq]
    /\ spc' = [spc EXCEPT ![b] = to[1]]
    /\ si' = [si EXCEPT ![b] = to[2]]
    /\ UNCHANGED <<nb, requests, count, caller, last, scheduled, epc, ei,
                   value, order, wrote, spawns, ones, runs, aborted, released,
                   pred, woke, held, cap, strong, selfDecs, predDecs, swaps, relOrder,
                   nonBoc>>

\* start_enqueue: no prev, Behavior::resolve_one(behavior)
StartEnqueueGrant(b) ==
    LET to == AfterStartEnqueue(b, si[b]) IN
    /\ ~aborted
    /\ spc[b] = "grant"
    /\ ResolveOne(b, epc)
    /\ selfDecs' = [selfDecs EXCEPT ![<<b, si[b]>>] = @ + 1]
    /\ spc' = [spc EXCEPT ![b] = to[1]]
    /\ si' = [si EXCEPT ![b] = to[2]]
    /\ UNCHANGED <<nb, requests, caller, prev, last, next, scheduled, ei, value,
                   order, wrote, runs, aborted, released, pred, woke, held,
                   cap, strong, predDecs, swaps, relOrder,
                   nonBoc>>

\* finish_enqueue: scheduled.store(true)
FinishEnqueue(b) ==
    LET i == si[b] IN
    /\ ~aborted
    /\ spc[b] = "finish"
    /\ scheduled' = [scheduled EXCEPT ![<<b, i>>] = TRUE]
    /\ spc' = [spc EXCEPT ![b] = IF i < NumRequests(b) THEN "finish" ELSE "final"]
    /\ si' = [si EXCEPT ![b] = i + 1]
    /\ UNCHANGED <<nb, requests, count, caller, prev, last, next, epc, ei, value,
                   order, wrote, spawns, ones, runs, aborted, released, pred,
                   woke, held, cap, strong, selfDecs, predDecs, swaps, relOrder,
                   nonBoc>>

\* schedule: the final Behavior::resolve_one(b); schedule and run_when return
ScheduleResolve(b) ==
    /\ ~aborted
    /\ spc[b] = "final"
    /\ ResolveOne(b, epc)
    /\ spc' = [spc EXCEPT ![b] = "returned"]
    /\ UNCHANGED <<nb, requests, caller, si, prev, last, next, scheduled, ei,
                   value, order, wrote, runs, aborted, released, pred, woke,
                   held, cap, strong, selfDecs, predDecs, swaps, relOrder,
                   nonBoc>>

\* ------------------------------------------------------------- spawned task
\* Where the task goes after release of request i has returned.
\* (Faulty variant: the loop ends after the first release.)
ReleaseFirstOnly(b, i) == <<"end", i + 1>>
AfterRelease(b, i) ==
    IF i < NumRequests(b) THEN <<"load", i + 1>> ELSE <<"end", i + 1>>

\* The executor starts the closure handed over by resolve_one: (this.thunk)();
\* cowns.get_mut() consumes the group of handles.
BodyStart(b) ==
    /\ ~aborted
    /\ epc[b] = "spawned"
    /\ strong' = [x \in Cowns |-> strong[x] - Occurrences(requests[b], x)]
    /\ epc' = [epc EXCEPT ![b] = "body"]
    /\ ei' = [ei EXCEPT ![b] = 1]
    /\ runs' = [runs EXCEPT ![b] = @ + 1]
    /\ UNCHANGED <<nb, requests, count, caller, spc, si, prev, last, next,
                   scheduled, value, order, wrote, spawns, ones, aborted, released,
                   pred, woke, held, cap, selfDecs, predDecs, swaps, relOrder,
                   nonBoc>>

\* CownPtrs::get_mut: the k-th reference handed to the body of b points to
\* the value of the k-th cown of its group.
\* (Faulty variant: the reference points into the next cown.)
StrayReference(b, k) == (requests[b][k] % NumCowns) + 1
get_mut(b, k) == requests[b][k]

\* The body writes through the next of its references (`*g += 1`).
BodyWrite(b) ==
    LET c == get_mut(b, ei[b]) IN
    /\ ~aborted
    /\ epc[b] = "body"
    /\ ei[b] <= NumRequests(b)
    /\ value' = [value EXCEPT ![c] = @ + 1]
    /\ wrote' = [wrote EXCEPT ![c] = @ \cup {b}]
    /\ ei' = [ei EXCEPT ![b] = @ + 1]
    /\ UNCHANGED <<nb, requests, count, caller, spc, si, prev, last, next,
                   scheduled, epc, order, spawns, ones, runs, aborted, released,
                   pred, woke, held, cap, strong, selfDecs, predDecs, swaps, relOrder,
                   nonBoc>>

\* The thunk returns and is dropped with the handles its closure captured;
\* the task enters `for r in &this.requests { r.release() }`.
BodyReturn(b) ==
    /\ ~aborted
    /\ epc[b] = "body"
    /\ ei[b] > NumRequests(b)
    /\ CallsReturned(b)
    /\ strong' = [x \in Cowns |-> strong[x] - (IF x \in cap[b] THEN 1 ELSE 0)]
    /\ epc' = [epc EXCEPT ![b] = IF NumRequests(b) = 0 THEN "end" ELSE "load"]
    /\ ei' = [ei EXCEPT ![b] = 1]
    /\ UNCHANGED <<nb, requests, count, caller, spc, si, prev, last, next,
                   scheduled, value, order, wrote, spawns, ones, runs, aborted, released,
                   pred, woke, held, cap, selfDecs, predDecs, swaps, relOrder,
                   nonBoc>>

\* The thunk panics: unwinding leaves the spawned closure before the release
\* loop, and the executor's default panic policy ends the process.
BodyPanic(b) ==
    /\ ~aborted
    /\ epc[b] = "body"
    /\ CallsReturned(b)
    /\ epc' = [epc EXCEPT ![b] = "panicked"]
    /\ aborted' = TRUE
    /\ UNCHANGED <<nb, requests, count, caller, spc, si, prev, last, next,
                   scheduled, ei, value, order, wrote, spawns, ones, runs, released,
                   pred, woke, held, cap, strong, selfDecs, predDecs, swaps, relOrder,
                   nonBoc>>

\* release: `if self.next.load(SeqCst).is_null()`
ReleaseLoad(b) ==
    /\ ~aborted
    /\ epc[b] = "load"
    /\ epc' = [epc EXCEPT ![b] = IF next[<<b, ei[b]>>] = NoBeh THEN "cas" ELSE "resolve"]
    /\ UNCHANGED <<nb, requests, count, caller, spc, si, prev, last, next,
                   scheduled, ei, value, order, wrote, spawns, ones, runs, aborted, released,
                   pred, woke, held, cap, strong, selfDecs, predDecs, swaps, relOrder,
                   nonBoc>>

\* release: compare_exchange(self, null) succeeds; return
ReleaseCasOk(b) ==
    LET i == ei[b]
        c == requests[b][i]
        to == AfterRelease(b, i)
    IN
    /\ ~aborted
    /\ epc[b] = "cas"
    /\ CasSucceeds(last[c], <<b, i>>)
    /\ last' = [last EXCEPT ![c] = NullReq]
    /\ relOrder' = [relOrder EXCEPT ![b] = Append(@, i)]
    /\ epc' = [epc EXCEPT ![b] = to[1]]
    /\ ei' = [ei EXCEPT ![b] = to[2]]
    /\ released' = released \cup {<<b, i>>}
    /\ UNCHANGED <<nb, requests, count, caller, spc, si, prev, next, scheduled,
                   value, order, wrote, spawns, ones, runs, aborted, pred,
                   woke, held, cap, strong, selfDecs, predDecs, swaps,
                   nonBoc>>

\* release: compare_exchange(self, null) fails
ReleaseCasFail(b) ==
    LET i == ei[b]
        c == requests[b][i]
    IN
    /\ ~aborted
    /\ epc[b] = "cas"
    /\ ~CasSucceeds(last[c], <<b, i>>)
    /\ epc' = [epc EXCEPT ![b] = "relspin"]
    /\ UNCHANGED <<nb, requests, count, caller, spc, si, prev, last, next,
                   scheduled, ei, value, order, wrote, spawns, ones, runs, aborted, released,
                   pred, woke, held, cap, strong, selfDecs, predDecs, swaps, relOrder,
                   nonBoc>>

\* release: the spin loop `while self.next.load(SeqCst).is_null()` is left
ReleaseSpin(b) ==
    /\ ~aborted
    /\ epc[b] = "relspin"
    /\ next[<<b, ei[b]>>] # NoBeh
    /\ epc' = [epc EXCEPT ![b] = "resolve"]
    /\ UNCHANGED <<nb, requests, count, caller, spc, si, prev, last, next,
                   scheduled, ei, value, order, wrote, spawns, ones, runs, aborted, released,
                   pred, woke, held, cap, strong, selfDecs, predDecs, swaps, relOrder,
                   nonBoc>>

\* release: Behavior::resolve_one(self.next.load(SeqCst))
ReleaseResolve(b) ==
    LET i == ei[b]
        to == AfterRelease(b, i)
    IN
    /\ ~aborted
    /\ epc[b] = "resolve"
    /\ ResolveOne(next[<<b, i>>], [epc EXCEPT ![b] = to[1]])
    /\ woke' = [woke EXCEPT ![<<b, i>>] = next[<<b, i>>]]
    /\ predDecs' = [predDecs EXCEPT ![RequestOn(next[<<b, i>>], requests[b][i])] = @ + 1]
    /\ relOrder' = [relOrder EXCEPT ![b] = Append(@, i)]
    /\ ei' = [ei EXCEPT ![b] = to[2]]
    /\ released' = released \cup {<<b, i>>}
    /\ UNCHANGED <<nb, requests, caller, spc, si, prev, last, next, scheduled,
                   value, order, wrote, runs, aborted, pred, held, cap,
                   strong, selfDecs, swaps,
                   nonBoc>>

\* The spawned closure ends: `this` (the Box<Behavior>) is dropped, and its
\* requests with it.
BehaviorDrop(b) ==
    /\ ~aborted
    /\ epc[b] = "end"
    /\ strong' = [x \in Cowns |->
            strong[x] - TargetRefs(Occurrences(requests[b], x))]
    /\ epc' = [epc EXCEPT ![b] = "dropped"]
    /\ UNCHANGED <<nb, requests, count, caller, spc, si, prev, last, next,
                   scheduled, ei, value, order, wrote, spawns, ones, runs, aborted, released,
                   pred, woke, held, cap, selfDecs, predDecs, swaps, relOrder,
                   nonBoc>>

\* ------------------------------------------------------------- specifications
Callers == ThreadCallers \cup Beh

ScheduleStep(b) ==
    \/ StartEnqueueSwap(b)
    \/ StartEnqueueSpin(b)
    \/ StartEnqueueStore(b)
    \/ StartEnqueueGrant(b)
    \/ FinishEnqueue(b)
    \/ ScheduleResolve(b)

TaskStep(b) ==
    \/ BodyStart(b)
    \/ BodyWrite(b)
    \/ BodyReturn(b)
    \/ ReleaseLoad(b)
    \/ ReleaseCasOk(b)
    \/ ReleaseCasFail(b)
    \/ ReleaseSpin(b)
    \/ ReleaseResolve(b)
    \/ BehaviorDrop(b)

Next ==
    \/ \E c \in Callers, cs \in Groups : RunWhen(c, cs)
    \/ \E b \in Beh : StartEnqueueSwap(b)
    \/ \E b \in Beh : StartEnqueueSpin(b)
    \/ \E b \in Beh : StartEnqueueStore(b)
    \/ \E b \in Beh : StartEnqueueGrant(b)
    \/ \E b \in Beh : FinishEnqueue(b)
    \/ \E b \in Beh : ScheduleResolve(b)
    \/ \E b \in Beh : BodyStart(b)
    \/ \E b \in Beh : BodyWrite(b)
    \/ \E b \in Beh : BodyReturn(b)
    \/ \E b \in Beh : ReleaseLoad(b)
    \/ \E b \in Beh : ReleaseCasOk(b)
    \/ \E b \in Beh : ReleaseCasFail(b)
    \/ \E b \in Beh : ReleaseSpin(b)
    \/ \E b \in Beh : ReleaseResolve(b)
    \/ \E b \in Beh : BehaviorDrop(b)

Spec == Init /\ [][Next]_vars

\* Bodies that may panic.
NextPanic ==
    \/ Next
    \/ \E b \in Beh : BodyPanic(b)

SpecPanic == Init /\ [][NextPanic]_vars

\* Callers that may pass a group naming a cown twice.
NextDup ==
    \/ Next
    \/ \E c \in Callers, cs \in DupGroups : RunWhenDup(c, cs)

SpecDup == Init /\ [][NextDup]_vars

\* The threads drop their handles of a cown (the CownPtr goes out of scope).
DropHandle(c) ==
    /\ ~aborted
    /\ held[c]
    /\ held' = [held EXCEPT ![c] = FALSE]
    /\ strong' = [strong EXCEPT ![c] = @ - 1]
    /\ UNCHANGED <<nb, requests, count, caller, spc, si, prev, last, next,
                   scheduled, epc, ei, value, order, wrote, spawns, ones, runs,
                   released, pred, woke, cap, aborted, selfDecs, predDecs, swaps, relOrder,
                   nonBoc>>

\* A when! whose closure captures no handle.
RunWhenNoCapture(c, cs) == cs \in Groups /\ SubmitWith(c, cs, {})

\* Handles may be dropped at any time, and closures need not keep any.
NextArc ==
    \/ /\ nb < MaxArcBehaviors
       /\ \E c \in Callers, cs \in Groups : RunWhen(c, cs)
    \/ /\ nb < MaxArcBehaviors
       /\ \E c \in Callers, cs \in Groups : RunWhenNoCapture(c, cs)
    \/ \E b \in Beh : ScheduleStep(b)
    \/ \E b \in Beh : TaskStep(b)
    \/ \E c \in Cowns : DropHandle(c)

SpecArc == Init /\ [][NextArc]_vars

\* Every thread inside schedule keeps running, the executor runs every task
\* it was handed, and every body returns.
FairSpec ==
    /\ Spec
    /\ \A b \in Beh : WF_vars(ScheduleStep(b))
    /\ \A b \in Beh : WF_vars(TaskStep(b))

\* Every thread inside schedule keeps running; the executor may run nothing
\* and a body may never finish.
SchedFairSpec ==
    /\ Spec
    /\ \A b \in Beh : WF_vars(ScheduleStep(b))

\* The steps of Request::release inside the spawned task of b.
ReleaseStep(b) ==
    \/ ReleaseLoad(b)
    \/ ReleaseCasOk(b)
    \/ ReleaseCasFail(b)
    \/ ReleaseSpin(b)
    \/ ReleaseResolve(b)

\* Every thread inside schedule and every task inside release keeps running;
\* the executor may start no further task and a body may never finish.
ReleaseFairSpec ==
    /\ Spec
    /\ \A b \in Beh : WF_vars(ScheduleStep(b))
    /\ \A b \in Beh : WF_vars(ReleaseStep(b))

\* ------------------------------------------------------------- properties
IndexOf(b, c) == CHOOSE i \in 1 .. NumRequests(b) : requests[b][i] = c
Requests(b, c) == Created(b) /\ c \in Range(requests[b])
Swapped(b, c) == b \in Range(order[c])
Before(b1, b2, c) ==
    \E p, q \in 1 .. Len(order[c]) : p < q /\ order[c][p] = b1 /\ order[c][q] = b2

\* b is between the hand-over of its body and the end of its release on c.
Holds(b, c) ==
    /\ Requests(b, c)
    /\ spawns[b] > 0
    /\ <<b, IndexOf(b, c)>> \notin released

\* C1. Mutual exclusion: for every cown, at most one behaviour that requested
\* it is between the hand-over of its body to the executor (count reached 0)
\* and the end of its release of that cown; a running body holds each of its
\* cowns.
MutualExclusion ==
    /\ \A c \in Cowns : \A b1, b2 \in Beh :
          Holds(b1, c) /\ Holds(b2, c) => b1 = b2
    /\ \A b \in Beh : epc[b] = "body" =>
          \A c \in Range(requests[b]) : Holds(b, c)

\* A body is running on a cown while another behaviour, whose run_when has
\* returned, is queued behind it on that cown.
MutualExclusionWitness ==
    \E c \in Cowns : \E b1, b2 \in Beh :
        /\ b1 # b2
        /\ epc[b1] = "body"
        /\ Requests(b1, c) /\ Requests(b2, c)
        /\ Before(b1, b2, c)
        /\ spc[b2] = "returned"
        /\ spawns[b2] = 0

\* b1 precedes b2: they share a cown on which b1 swapped in first.
Precedes(b1, b2) == \E c \in Cowns : Before(b1, b2, c)

\* C2. Atomicity of multi-cown access: two behaviours that share cowns c and
\* d are queued in the same order on both (so the precedence between whole
\* behaviours has no cycle), and a running body sees another behaviour's
\* writes to their shared cowns all or none.
Atomicity ==
    /\ \A c, d \in Cowns : \A b1, b2 \in Beh :
          Before(b1, b2, c) /\ Requests(b1, d) /\ Swapped(b2, d)
              => Before(b1, b2, d)
    /\ \A b1, b2, b3 \in Beh :
          ~(Precedes(b1, b2) /\ Precedes(b2, b3) /\ Precedes(b3, b1))
    /\ \A b, a \in Beh : epc[b] = "body" /\ a # b =>
          \A c, d \in Range(requests[a]) \cap Range(requests[b]) :
              a \in wrote[c] <=> a \in wrote[d]

\* A body runs on two cowns that another behaviour, submitted by another
\* thread on the same two cowns, has already written both.
AtomicityWitness ==
    \E b, a \in Beh :
        /\ a # b
        /\ epc[b] = "body"
        /\ caller[a] # caller[b] /\ caller[a] < 0 /\ caller[b] < 0
        /\ NumRequests(a) = 2 /\ NumRequests(b) = 2
        /\ \A c \in Range(requests[b]) : a \in wrote[c] /\ Requests(a, c)

\* C4. Exactly-once execution: at most one fetch_sub on a behaviour's count
\* returns 1, the thunk is handed to the executor by that call and by no
\* other, the body is started at most once, and once all decrements are done
\* (count 0) or the behaviour is destroyed the body was handed over and run
\* once.
ExactlyOnce ==
    \A b \in Beh :
        /\ ones[b] <= 1
        /\ spawns[b] = ones[b]
        /\ runs[b] <= spawns[b]
        /\ Created(b) /\ count[b] = 0 => ones[b] = 1
        /\ epc[b] = "dropped" => runs[b] = 1

\* A behaviour with two requests, resolved by a predecessor's release, has run
\* and been destroyed.
ExactlyOnceWitness ==
    \E b \in Beh :
        /\ epc[b] = "dropped"
        /\ NumRequests(b) = 2
        /\ \E r \in ReqIds : next[r] = b /\ r \in released
        /\ runs[b] = 1

\* C5. FIFO per cown: if b1 swapped into a cown's last pointer before b2, then
\* b1's release of that cown has returned before b2's body starts.
FifoPerCown ==
    \A c \in Cowns : \A b1, b2 \in Beh :
        Before(b1, b2, c) /\ runs[b2] > 0 => <<b1, IndexOf(b1, c)>> \in released

\* Three behaviours queued on one cown; the third one's body has started.
FifoPerCownWitness ==
    \E c \in Cowns :
        /\ Len(order[c]) = 3
        /\ runs[order[c][3]] > 0

\* C8. The body is not handed to the executor before schedule has done
\* start_enqueue and finish_enqueue on every request: until the final
\* resolve_one of schedule, count >= 1 and the thunk is not spawned.
NoRunBeforeScheduled ==
    \A b \in Beh :
        /\ Created(b) /\ spc[b] # "returned" => count[b] >= 1 /\ spawns[b] = 0
        /\ spawns[b] > 0 =>
              \A i \in 1 .. NumRequests(b) :
                  scheduled[<<b, i>>] /\ Swapped(b, requests[b][i])

\* Every request was granted at once in phase 1, and schedule is about to
\* issue the final resolve_one.
NoRunBeforeScheduledWitness ==
    \E b \in Beh :
        /\ spc[b] = "final"
        /\ NumRequests(b) = NumCowns
        /\ count[b] = 1
        /\ \A r \in ReqIds : next[r] # b

\* C3. Deadlock-freedom: under fair scheduling of the threads and of the
\* executor, every behaviour submitted (by any thread or body, with its cowns
\* listed in any order) eventually has its body executed and its release
\* chain completed.
\* (Submissions are finitely many, so "again and again every behaviour
\* submitted so far has completed" says that each one completes.)
DeadlockFreedom ==
    []<>(\A b \in Beh : Created(b) => epc[b] = "dropped" /\ runs[b] = 1)

\* Two behaviours submitted by different threads on the same two cowns have
\* both completed, the first in both queues first.
DeadlockFreedomWitness ==
    \E b1, b2 \in Beh :
        /\ b1 # b2
        /\ caller[b1] < 0 /\ caller[b2] < 0 /\ caller[b1] # caller[b2]
        /\ NumRequests(b1) = 2 /\ NumRequests(b2) = 2
        /\ epc[b1] = "dropped" /\ epc[b2] = "dropped"
        /\ \E c, d \in Cowns : c # d /\ Before(b1, b2, c) /\ Before(b1, b2, d)

\* C9. Submission never waits on a body: if the threads inside schedule are
\* fairly scheduled, every run_when call returns, even when the executor runs
\* nothing and no body finishes; the spin of start_enqueue can be left as soon
\* as the predecessor's schedule has finished phase 2.
SubmissionReturns ==
    /\ [](\A b \in Beh :
            spc[b] = "spin" /\ spc[prev[b][1]] \in {"final", "returned"}
                => ENABLED StartEnqueueSpin(b))
    /\ []<>(\A b \in Beh : Created(b) => spc[b] = "returned")

\* A run_when call has returned although its request was queued behind a
\* behaviour whose body has not finished.
SubmissionReturnsWitness ==
    \E b1, b2 \in Beh : \E c \in Cowns :
        /\ Before(b1, b2, c)
        /\ spc[b2] = "returned"
        /\ epc[b1] \in {"none", "spawned", "body"}
        /\ spawns[b2] = 0

\* k was submitted from inside the body of b, on a cown c that b holds.
NestedOn(k, b, c) ==
    /\ Created(k)
    /\ caller[k] = b
    /\ b \in Beh
    /\ Requests(k, c)
    /\ Requests(b, c)

\* C10. Nested scheduling does not deadlock: a run_when called by a running
\* body on a cown the body holds returns while the outer body is still
\* running, the nested body starts only after the outer behaviour has
\* released that cown, and the nested and the outer behaviour both complete.
NestedScheduling ==
    /\ [](\A k, b \in Beh : \A c \in Cowns :
            NestedOn(k, b, c) =>
                /\ spc[k] # "returned" => epc[b] = "body"
                /\ runs[k] > 0 => <<b, IndexOf(b, c)>> \in released)
    /\ []<>(\A k, b \in Beh : \A c \in Cowns :
            NestedOn(k, b, c) => epc[k] = "dropped" /\ epc[b] = "dropped")

\* The nested body runs after the outer behaviour released the shared cown,
\* while a third behaviour submitted by a thread on the same cowns is queued
\* between the two.
NestedSchedulingWitness ==
    \E k, b, t \in Beh : \E c \in Cowns :
        /\ NestedOn(k, b, c)
        /\ epc[k] = "body"
        /\ caller[t] < 0
        /\ Range(requests[t]) = Range(requests[b])
        /\ Before(b, t, c) /\ Before(t, k, c)

\* C6. A body that panics still has release executed for each of its
\* requests: when its task has ended, every request it held is released.
PanicStillReleases ==
    \A b \in Beh : epc[b] = "panicked" =>
        \A i \in 1 .. NumRequests(b) : <<b, i>> \in released

\* C7. No behaviour holding two requests for the same cown enters phase 1
\* of the enqueue protocol.
DuplicatesRejected ==
    \A b \in Beh :
        spc[b] \in {"swap", "spin", "store", "grant"} => NoDup(requests[b])

\* b1 and b2 were submitted by the same caller, b1 first: the run_when call
\* for b1 had returned when the one for b2 was made.
ProgramOrder(b1, b2) ==
    /\ Created(b1) /\ Created(b2)
    /\ b1 < b2
    /\ caller[b1] = caller[b2]

\* C11. Program-order visibility: if one caller calls run_when for b1 and,
\* after that call has returned, for b2, and the two share a cown, then b2's
\* body starts only after b1's body has finished and released the cown, and b2
\* sees b1's write to every shared cown; no increment is lost (the value of a
\* cown is the number of bodies that have written it).
ProgramOrderVisibility ==
    /\ \A b1, b2 \in Beh : \A c \in Cowns :
          ProgramOrder(b1, b2) /\ Requests(b1, c) /\ Requests(b2, c)
              /\ runs[b2] > 0
          => /\ epc[b1] \notin {"none", "spawned", "body"}
             /\ <<b1, IndexOf(b1, c)>> \in released
             /\ b1 \in wrote[c]
    /\ \A c \in Cowns : value[c] = Cardinality(wrote[c])

\* A thread has submitted three behaviours on the same two cowns, one after
\* the other; the third one's body is running and finds 2 in both cowns (the
\* test boc_two_when_overlap_cown), and it was queued while the second had
\* not yet released.
ProgramOrderVisibilityWitness ==
    \E b1, b2, b3 \in Beh :
        /\ ProgramOrder(b1, b2) /\ ProgramOrder(b2, b3)
        /\ caller[b1] < 0
        /\ NumRequests(b1) = 2 /\ NumRequests(b2) = 2 /\ NumRequests(b3) = 2
        /\ epc[b3] = "body" /\ ei[b3] = 1
        /\ \A c \in Range(requests[b3]) : value[c] = 2
        /\ \E i \in 1 .. NumRequests(b2) : next[<<b2, i>>] = b3

\* The cown a request targets.
TargetOf(r) == requests[r[1]][r[2]]

\* The release call of request r returns in this step.
ReleaseReturns(r) == r \notin released /\ r \in released'

\* C12. No missed or duplicated wakeup in release: a release call either
\* resets the cown's last pointer from its own request to null and resolves
\* nothing, or resolves exactly one behaviour, once: the one whose request
\* swapped in directly after it.  A request that swapped in behind a
\* predecessor is resolved by that predecessor's release and by nothing else,
\* and is not left unresolved with the queue marked empty.
NoMissedWakeup ==
    /\ [][\A r \in ReqIds : ReleaseReturns(r) =>
            \/ /\ woke'[r] = NoBeh
               /\ last[TargetOf(r)] = r
               /\ last'[TargetOf(r)] = NullReq
               /\ count' = count
               /\ spawns' = spawns
            \/ /\ woke'[r] # NoBeh
               /\ \E i \in 1 .. NumRequests(woke'[r]) : pred[<<woke'[r], i>>] = r
               /\ last' = last
               /\ count' = [count EXCEPT ![woke'[r]] = FetchSub(@)]]_vars
    /\ [](\A r1, r2 \in ReqIds :
            pred[r2] = r1 /\ r1 # NullReq =>
                /\ r1 \in released => woke[r1] = r2[1]
                /\ last[TargetOf(r2)] = NullReq => r1 \in released
                /\ \A r3 \in ReqIds : pred[r3] = r1 => r3 = r2)
    /\ [](\A r \in released :
            woke[r] = NoBeh => \A r2 \in ReqIds : pred[r2] # r)

\* One release call is in the spin that follows a failed compare_exchange
\* (its successor has swapped in but not yet stored itself), after one release
\* that cleared a queue and one that resolved a successor.
NoMissedWakeupWitness ==
    /\ \E b \in Beh : epc[b] = "relspin"
    /\ \E r \in released : woke[r] = NoBeh
    /\ \E r \in released : woke[r] # NoBeh

\* b was submitted with the empty cown group.
EmptyGroup(b) == Created(b) /\ NumRequests(b) = 0

\* C14. A behaviour submitted with the empty cown group has count 1 and no
\* requests; its body is handed to the executor exactly once, by the final
\* resolve_one of its own schedule call, and no step of it touches a cown's
\* queue.
EmptyGroupRuns ==
    /\ [](\A b \in Beh : EmptyGroup(b) =>
            /\ spc[b] \in {"final", "returned"}
            /\ spc[b] = "final" => count[b] = 1 /\ spawns[b] = 0
            /\ spc[b] = "returned" => count[b] = 0 /\ spawns[b] = 1
            /\ runs[b] <= 1
            /\ \A c \in Cowns : ~Swapped(b, c) /\ last[c][1] # b
            /\ \A r \in ReqIds : next[r] # b /\ woke[r] # b)
    /\ [][\A b \in Beh : EmptyGroup(b) /\ spc'[b] # spc[b] =>
            /\ spc[b] = "final" /\ spc'[b] = "returned"
            /\ spawns'[b] = 1
            /\ epc'[b] = "spawned"
            /\ last' = last /\ next' = next /\ scheduled' = scheduled]_vars

\* A behaviour with no cowns has run and been destroyed while another
\* behaviour is still queued on a cown.
EmptyGroupRunsWitness ==
    \E b \in Beh :
        /\ EmptyGroup(b)
        /\ epc[b] = "dropped"
        /\ runs[b] = 1
        /\ \E c \in Cowns : last[c] # NullReq

\* b has been constructed and its Box<Behavior> not yet dropped.
Alive(b) == Created(b) /\ epc[b] # "dropped"

\* C13. A cown outlives every request that targets it: it is not destroyed
\* (its strong count stays above 0) while a behaviour that is not yet
\* destroyed holds a request on it, whatever handles have been dropped; and a
\* destroyed cown has a null last pointer.
CownOutlivesRequests ==
    /\ \A b \in Beh : Alive(b) =>
          \A c \in Range(requests[b]) : strong[c] > 0
    /\ \A c \in Cowns : strong[c] >= 0
    /\ \A c \in Cowns : strong[c] = 0 => last[c] = NullReq

\* A behaviour is in its release loop on a cown that only its request keeps
\* alive (the threads have dropped their handles, the thunk is gone), while
\* another cown that behaviours have used is destroyed.
CownOutlivesRequestsWitness ==
    \E b \in Beh : \E c, d \in Cowns :
        /\ Requests(b, c)
        /\ epc[b] \in {"load", "cas", "resolve"}
        /\ ~held[c]
        /\ strong[c] = 1
        /\ strong[d] = 0
        /\ order[d] # <<>>

\* ------------------------------------------------------------- thread pool
\* Receiver::recv on an unbounded MPMC channel returns Err only when the
\* channel is empty and every sender has been dropped.
Disconnected(q, s) == q = <<>> /\ ~s

\* ThreadPoolInner::wait_empty: `while *guard != 0 { wait }` is left.
WaitEmptyDone(n) == n = 0

\* Worker::drop: thread.join() returns once the worker thread has exited.
\* (Faulty variant: the JoinHandle is dropped without joining, which detaches
\* the thread.)
Detached(w) == TRUE
ThreadJoined(w) == wpc[w] = "exited"

\* ThreadPool::execute: job_sender.send(Job(..))
Execute ==
    /\ ppc = "idle"
    /\ sent < MaxJobs
    /\ sender
    /\ chan' = Append(chan, sent + 1)
    /\ sent' = sent + 1
    /\ UNCHANGED <<sender, jobCount, wpc, wjob, ppc, joined, execs, ranBy,
                   atJoin, unfinished, atDrop, nonPool>>

\* ThreadPool::join is called: wait_empty locks job_count.
JoinCall ==
    /\ ppc = "idle"
    /\ ppc' = "joining"
    /\ atJoin' = sent
    /\ UNCHANGED <<chan, sender, jobCount, wpc, wjob, sent, joined, execs,
                   ranBy, unfinished, atDrop, nonPool>>

\* wait_empty finds job_count 0 under the lock; join returns.
JoinReturn ==
    /\ ppc = "joining"
    /\ WaitEmptyDone(jobCount)
    /\ ppc' = "idle"
    /\ unfinished' = unfinished \cup {j \in 1 .. atJoin : execs[j] = 0}
    /\ UNCHANGED <<chan, sender, jobCount, wpc, wjob, sent, joined, execs,
                   ranBy, atJoin, atDrop, nonPool>>

\* Worker loop: job_receiver.recv() returns Ok(job).
WorkerRecv(w) ==
    /\ wpc[w] = "recv"
    /\ chan # <<>>
    /\ wjob' = [wjob EXCEPT ![w] = Head(chan)]
    /\ chan' = Tail(chan)
    /\ wpc' = [wpc EXCEPT ![w] = "start"]
    /\ UNCHANGED <<sender, jobCount, sent, ppc, joined, execs, ranBy, atJoin,
                   unfinished, atDrop, nonPool>>

\* Worker loop: recv() returns Err, the loop and the thread end.
WorkerExit(w) ==
    /\ wpc[w] = "recv"
    /\ Disconnected(chan, sender)
    /\ wpc' = [wpc EXCEPT ![w] = "exited"]
    /\ UNCHANGED <<chan, sender, jobCount, wjob, sent, ppc, joined, execs,
                   ranBy, atJoin, unfinished, atDrop, nonPool>>

\* Worker loop: pool_inner.start_job()
StartJob(w) ==
    /\ wpc[w] = "start"
    /\ jobCount' = jobCount + 1
    /\ wpc' = [wpc EXCEPT ![w] = "run"]
    /\ UNCHANGED <<chan, sender, wjob, sent, ppc, joined, execs, ranBy,
                   atJoin, unfinished, atDrop, nonPool>>

\* Worker loop: job.0() runs the job to its end.
RunJob(w) ==
    /\ wpc[w] = "run"
    /\ execs' = [execs EXCEPT ![wjob[w]] = @ + 1]
    /\ ranBy' = [ranBy EXCEPT ![wjob[w]] = @ \cup {w}]
    /\ wpc' = [wpc EXCEPT ![w] = "finish"]
    /\ UNCHANGED <<chan, sender, jobCount, wjob, sent, ppc, joined, atJoin,
                   unfinished, atDrop, nonPool>>

\* Worker loop: pool_inner.finish_job() (the notify_all wakes wait_empty,
\* which checks job_count again under the lock).
FinishJob(w) ==
    /\ wpc[w] = "finish"
    /\ jobCount' = jobCount - 1
    /\ wjob' = [wjob EXCEPT ![w] = NoJob]
    /\ wpc' = [wpc EXCEPT ![w] = "recv"]
    /\ UNCHANGED <<chan, sender, sent, ppc, joined, execs, ranBy, atJoin,
                   unfinished, atDrop, nonPool>>

\* Drop for ThreadPool: drop(self.job_sender.take()); the fields are dropped
\* next, `_workers` first.
PoolDrop ==
    /\ ppc = "idle"
    /\ sender' = FALSE
    /\ atDrop' = Len(chan)
    /\ ppc' = "dropping"
    /\ UNCHANGED <<chan, jobCount, wpc, wjob, sent, joined, execs, ranBy,
                   atJoin, unfinished, nonPool>>

\* Drop for Worker, in the order of the vector: thread.join() returns.
WorkerDrop ==
    /\ ppc = "dropping"
    /\ joined < NumWorkers
    /\ ThreadJoined(joined + 1)
    /\ joined' = joined + 1
    /\ UNCHANGED <<chan, sender, jobCount, wpc, wjob, sent, ppc, execs, ranBy,
                   atJoin, unfinished, atDrop, nonPool>>

\* The last field is dropped; drop(pool) returns.
PoolDropReturn ==
    /\ ppc = "dropping"
    /\ joined = NumWorkers
    /\ ppc' = "dropped"
    /\ UNCHANGED <<chan, sender, jobCount, wpc, wjob, sent, joined, execs,
                   ranBy, atJoin, unfinished, atDrop, nonPool>>

NextPool ==
    \/ Execute
    \/ JoinCall
    \/ JoinReturn
    \/ \E w \in Workers : WorkerRecv(w)
    \/ \E w \in Workers : WorkerExit(w)
    \/ \E w \in Workers : StartJob(w)
    \/ \E w \in Workers : RunJob(w)
    \/ \E w \in Workers : FinishJob(w)
    \/ PoolDrop
    \/ WorkerDrop
    \/ PoolDropReturn

SpecPool == Init /\ [][NextPool]_vars

\* C15. ThreadPool::join blocks the caller until all jobs in the pool have
\* been executed: when join returns, every job passed to execute before join
\* was called has been run, also those no worker had received yet.
JoinWaitsForAllJobs == unfinished = {}

\* C16. Dropping a ThreadPool closes the job channel and joins every worker
\* thread: drop returns only after all workers have exited, and every job
\* passed to execute before the drop has been run exactly once, by one worker;
\* no job is run twice at any time.
DropRunsEveryJob ==
    /\ ppc \in {"dropping", "dropped"} => ~sender
    /\ ppc = "dropped" =>
          /\ \A w \in Workers : wpc[w] = "exited"
          /\ chan = <<>>
          /\ \A j \in 1 .. sent : execs[j] = 1 /\ Cardinality(ranBy[j]) = 1
    /\ \A j \in Jobs : execs[j] <= 1

\* drop has returned for a pool that was dropped with every job still in the
\* channel, and the jobs were run by different workers.
DropRunsEveryJobWitness ==
    /\ ppc = "dropped"
    /\ sent = MaxJobs
    /\ atDrop = MaxJobs
    /\ \E j, k \in Jobs : ranBy[j] # ranBy[k]

\* ------------------------------------------------------------- cache
\* RwLock::read and RwLock::write block while a writer holds the lock.
\* (Faulty variant: the placeholder is published without its write lock held.)
NeverHeld(s) == FALSE
WriteHeld(s) == slotW[s] # NoThread

\* HashMap::entry(key) is Entry::Vacant.
\* (Faulty variant: the value lock is inserted without looking at the entry.)
AlwaysVacant(k) == TRUE
Vacant(k) == entries[k] = NoSlot

\* r_value.as_ref().unwrap().clone(): panics on the placeholder None.
Unwrap(t, v) ==
    IF v = NoValue
    THEN /\ cpc' = [cpc EXCEPT ![t] = "panicked"]
         /\ cret' = cret
    ELSE /\ cpc' = [cpc EXCEPT ![t] = "done"]
         /\ cret' = [cret EXCEPT ![t] = v]

\* A thread calls get_or_insert_with(k, f).
CacheCall(t, k) ==
    /\ cpc[t] = "idle"
    /\ cpc' = [cpc EXCEPT ![t] = "lookup"]
    /\ ckey' = [ckey EXCEPT ![t] = k]
    /\ UNCHANGED <<mapW, entries, slotVal, slotW, cslot, cret, fcalls, missed,
                   waited, nonCache>>

\* self.inner.read(), r_cache.get(&key).cloned(), and the read lock released.
Lookup(t) ==
    LET s == entries[ckey[t]] IN
    /\ cpc[t] = "lookup"
    /\ mapW = NoThread
    /\ cslot' = [cslot EXCEPT ![t] = s]
    /\ cpc' = [cpc EXCEPT ![t] = IF s = NoSlot THEN "create" ELSE "read"]
    /\ missed' = IF s = NoSlot THEN missed \cup {t} ELSE missed
    /\ waited' = IF s # NoSlot /\ WriteHeld(s) THEN waited \cup {t} ELSE waited
    /\ UNCHANGED <<mapW, entries, slotVal, slotW, ckey, cret, fcalls, nonCache>>

\* Entry found: value_lock.read() is granted, the value is cloned, return.
ReadValue(t) ==
    /\ cpc[t] = "read"
    /\ ~WriteHeld(cslot[t])
    /\ Unwrap(t, slotVal[cslot[t]])
    /\ UNCHANGED <<mapW, entries, slotVal, slotW, ckey, cslot, fcalls, missed,
                   waited, nonCache>>

\* No entry: Arc::new(RwLock::new(None)) and value_lock.write().
CreateLock(t) ==
    /\ cpc[t] = "create"
    /\ slotW' = [slotW EXCEPT ![t] = t]
    /\ cpc' = [cpc EXCEPT ![t] = "entry"]
    /\ UNCHANGED <<mapW, entries, slotVal, ckey, cslot, cret, fcalls, missed,
                   waited, nonCache>>

\* self.inner.write(), Entry::Vacant: the value lock is inserted and the map
\* lock released.
InsertVacant(t) ==
    /\ cpc[t] = "entry"
    /\ mapW = NoThread
    /\ Vacant(ckey[t])
    /\ entries' = [entries EXCEPT ![ckey[t]] = t]
    /\ cpc' = [cpc EXCEPT ![t] = "call"]
    /\ UNCHANGED <<mapW, slotVal, slotW, ckey, cslot, cret, fcalls, missed,
                   waited, nonCache>>

\* self.inner.write(), Entry::Occupied: the thread goes on to
\* value_lock.read() of the stored lock with the map's write lock held.
FindOccupied(t) ==
    LET s == entries[ckey[t]] IN
    /\ cpc[t] = "entry"
    /\ mapW = NoThread
    /\ ~Vacant(ckey[t])
    /\ mapW' = t
    /\ cslot' = [cslot EXCEPT ![t] = s]
    /\ cpc' = [cpc EXCEPT ![t] = "occupied"]
    /\ waited' = IF WriteHeld(s) THEN waited \cup {t} ELSE waited
    /\ UNCHANGED <<entries, slotVal, slotW, ckey, cret, fcalls, missed, nonCache>>

\* Entry::Occupied: value_lock.read() is granted, the value is cloned, return
\* (the map's write lock and the thread's own value lock are released).
ReadOccupied(t) ==
    /\ cpc[t] = "occupied"
    /\ ~WriteHeld(cslot[t])
    /\ Unwrap(t, slotVal[cslot[t]])
    /\ mapW' = NoThread
    /\ slotW' = [slotW EXCEPT ![t] = NoThread]
    /\ UNCHANGED <<entries, slotVal, ckey, cslot, fcalls, missed, waited,
                   nonCache>>

\* f(key) is called.
CallF(t) ==
    /\ cpc[t] = "call"
    /\ fcalls' = [fcalls EXCEPT ![ckey[t]] = @ \cup {t}]
    /\ cpc' = [cpc EXCEPT ![t] = "running"]
    /\ UNCHANGED <<mapW, entries, slotVal, slotW, ckey, cslot, cret, missed,
                   waited, nonCache>>

\* f returns; *value = Some(new_value.clone()); return new_value (the write
\* lock of the value lock is released).
StoreValue(t) ==
    /\ cpc[t] = "running"
    /\ slotVal' = [slotVal EXCEPT ![t] = t]
    /\ slotW' = [slotW EXCEPT ![t] = NoThread]
    /\ cret' = [cret EXCEPT ![t] = t]
    /\ cpc' = [cpc EXCEPT ![t] = "done"]
    /\ UNCHANGED <<mapW, entries, ckey, cslot, fcalls, missed, waited, nonCache>>

NextCache ==
    \/ \E t \in CacheThreads, k \in Keys : CacheCall(t, k)
    \/ \E t \in CacheThreads : Lookup(t)
    \/ \E t \in CacheThreads : ReadValue(t)
    \/ \E t \in CacheThreads : CreateLock(t)
    \/ \E t \in CacheThreads : InsertVacant(t)
    \/ \E t \in CacheThreads : FindOccupied(t)
    \/ \E t \in CacheThreads : ReadOccupied(t)
    \/ \E t \in CacheThreads : CallF(t)
    \/ \E t \in CacheThreads : StoreValue(t)

SpecCache == Init /\ [][NextCache]_vars

\* C17. get_or_insert_with runs f at most once per key: of the closures of
\* all invocations with the same key, one is called, in every interleaving,
\* and exactly one once an invocation for the key has returned.
ComputedOncePerKey ==
    /\ \A k \in Keys : Cardinality(fcalls[k]) <= 1
    /\ \A t \in CacheThreads : cpc[t] = "done" => Cardinality(fcalls[ckey[t]]) = 1

\* Three invocations with the same key have returned; two of them found no
\* entry in their first lookup.
ComputedOncePerKeyWitness ==
    \E k \in Keys :
        /\ \A t \in CacheThreads : cpc[t] = "done" /\ ckey[t] = k
        /\ Cardinality(missed) >= 2
        /\ Cardinality(fcalls[k]) = 1

\* Thread u holds the write lock of the map and waits, in value_lock.read(),
\* for a closure that is still running.
HoldsMapWaiting(u) ==
    /\ mapW = u
    /\ cpc[u] = "occupied"
    /\ WriteHeld(cslot[u])
    /\ cpc[cslot[u]] \in {"call", "running"}

\* C18. An invocation never blocks an invocation with a different key: no
\* thread holds the map-wide lock while it waits for a computation in flight,
\* so no call waits, at the map lock, for the closure of another key.
NoBlockingAcrossKeys ==
    /\ \A u \in CacheThreads : ~HoldsMapWaiting(u)
    /\ \A t, u \in CacheThreads :
          cpc[t] \in {"lookup", "entry"} /\ HoldsMapWaiting(u)
              => ckey[t] = ckey[u]

\* C19. Every invocation returns the value produced by the single call of f
\* for its key (the value stored under the key), also when it arrived while
\* the computation was in flight; no invocation reads the placeholder None.
ReturnsComputedValue ==
    \A t \in CacheThreads :
        /\ cpc[t] # "panicked"
        /\ cpc[t] = "done" =>
              /\ cret[t] # NoValue
              /\ fcalls[ckey[t]] = {cret[t]}
              /\ entries[ckey[t]] = cret[t]
              /\ slotVal[cret[t]] = cret[t]

\* Two invocations have returned the value computed by a third one: one found
\* the entry in its first lookup, one under the map's write lock, and both
\* found the value lock held by the computation in flight.
ReturnsComputedValueWitness ==
    \E t, u \in CacheThreads :
        /\ cpc[t] = "done" /\ cpc[u] = "done"
        /\ t \in waited /\ u \in waited
        /\ t \in missed /\ u \notin missed
        /\ cret[t] = cret[u]
        /\ cret[t] \notin {t, u}

\* ------------------------------------------------------------- list set
\* insert: `node.data > key`, the new node goes in front of `node`.
\* (Faulty variants: the comparison is left out; the comparison is turned
\* around.)
GoesBeforeAny(d, k) == TRUE
GoesBeforeSmaller(d, k) == d < k
GoesBefore(d, k) == d > k

\* The keys of the nodes reachable from node n, in list order (at most `fuel`
\* of them).
RECURSIVE KeysFrom(_, _)
KeysFrom(n, fuel) ==
    IF n = NullNode \/ fuel = 0 THEN <<>>
    ELSE <<data[n]>> \o KeysFrom(nnext[n], fuel - 1)

ListKeys == KeysFrom(nnext[HeadCell], MaxNodes + 1)

\* The list has changed: a call in progress whose key is missing from the new
\* list has seen its key absent.
NoteAbsent ==
    wasAbsent' = [u \in SetThreads |->
        wasAbsent[u] \/ (lpc[u] # "idle" /\ lkey[u] \notin Range(ListKeys'))]

\* The node the cursor of thread t points to (the pointer inside the mutex it
\* holds).
CursorNode(t) == nnext[cursor[t]]

\* The call returns r: the cursor's guard is dropped.
SetReturn(t, r) ==
    /\ lockedBy' = [lockedBy EXCEPT ![cursor[t]] = Unlocked]
    /\ lret' = [lret EXCEPT ![t] = r]
    /\ ldone' = [ldone EXCEPT ![t] = @ + 1]
    /\ lpc' = [lpc EXCEPT ![t] = "idle"]

\* The cursor moves on: node.next.lock(), then the old guard is dropped.
Advance(t) ==
    LET node == CursorNode(t) IN
    /\ lockedBy[node] = Unlocked
    /\ lockedBy' = [lockedBy EXCEPT ![node] = t, ![cursor[t]] = Unlocked]
    /\ cursor' = [cursor EXCEPT ![t] = node]

\* A thread calls insert, remove or contains.
SetCall(t, op, k) ==
    /\ lpc[t] = "idle"
    /\ ldone[t] < MaxOps
    /\ lop' = [lop EXCEPT ![t] = op]
    /\ lkey' = [lkey EXCEPT ![t] = k]
    /\ lpc' = [lpc EXCEPT ![t] = "head"]
    /\ wasAbsent' = [wasAbsent EXCEPT ![t] = k \notin Range(ListKeys)]
    /\ UNCHANGED <<nnext, data, lockedBy, alloc, freed, cursor, lret, ldone, nonSet>>

\* self.head.lock().unwrap()
LockHead(t) ==
    /\ lpc[t] = "head"
    /\ lockedBy[HeadCell] = Unlocked
    /\ lockedBy' = [lockedBy EXCEPT ![HeadCell] = t]
    /\ cursor' = [cursor EXCEPT ![t] = HeadCell]
    /\ lpc' = [lpc EXCEPT ![t] = "walk"]
    /\ UNCHANGED <<nnext, data, alloc, freed, lop, lkey, lret, ldone, nonSet,
                   wasAbsent>>

\* insert: the node under the cursor holds the key; return false.
InsertPresent(t) ==
    LET node == CursorNode(t) IN
    /\ lpc[t] = "walk" /\ lop[t] = "insert"
    /\ node # NullNode
    /\ data[node] = lkey[t]
    /\ SetReturn(t, FALSE)
    /\ UNCHANGED <<nnext, data, alloc, freed, lop, lkey, cursor, nonSet, wasAbsent>>

\* insert: the end of the list or a greater key is under the cursor; a new
\* node is linked in there; return true.
InsertNode(t) ==
    LET node == CursorNode(t)
        new == alloc + 1
    IN
    /\ lpc[t] = "walk" /\ lop[t] = "insert"
    /\ \/ node = NullNode
       \/ /\ node # NullNode
          /\ data[node] # lkey[t]
          /\ GoesBefore(data[node], lkey[t])
    /\ alloc' = new
    /\ data' = [data EXCEPT ![new] = lkey[t]]
    /\ nnext' = [nnext EXCEPT ![new] = node, ![cursor[t]] = new]
    /\ SetReturn(t, TRUE)
    /\ NoteAbsent
    /\ UNCHANGED <<freed, lop, lkey, cursor, nonSet>>

\* insert: a smaller key is under the cursor; the cursor moves on.
InsertAdvance(t) ==
    LET node == CursorNode(t) IN
    /\ lpc[t] = "walk" /\ lop[t] = "insert"
    /\ node # NullNode
    /\ data[node] # lkey[t]
    /\ ~GoesBefore(data[node], lkey[t])
    /\ Advance(t)
    /\ UNCHANGED <<nnext, data, alloc, freed, lpc, lop, lkey, lret, ldone, nonSet,
                   wasAbsent>>

\* Cursor::find: another key is under the cursor; the cursor moves on.
FindAdvance(t) ==
    LET node == CursorNode(t) IN
    /\ lpc[t] = "walk" /\ lop[t] \in {"contains", "remove"}
    /\ node # NullNode
    /\ data[node] # lkey[t]
    /\ Advance(t)
    /\ UNCHANGED <<nnext, data, alloc, freed, lpc, lop, lkey, lret, ldone, nonSet,
                   wasAbsent>>

\* contains: find has returned (the key, or the end of the list).
ContainsReturn(t) ==
    LET node == CursorNode(t) IN
    /\ lpc[t] = "walk" /\ lop[t] = "contains"
    /\ node = NullNode \/ (node # NullNode /\ data[node] = lkey[t])
    /\ SetReturn(t, node # NullNode)
    /\ UNCHANGED <<nnext, data, alloc, freed, lop, lkey, cursor, nonSet, wasAbsent>>

\* remove: find reached the end of the list; return false.
RemoveAbsent(t) ==
    /\ lpc[t] = "walk" /\ lop[t] = "remove"
    /\ CursorNode(t) = NullNode
    /\ SetReturn(t, FALSE)
    /\ UNCHANGED <<nnext, data, alloc, freed, lop, lkey, cursor, nonSet, wasAbsent>>

\* remove: find has found the key; Box::from_raw(*cursor.0).
RemoveFound(t) ==
    LET node == CursorNode(t) IN
    /\ lpc[t] = "walk" /\ lop[t] = "remove"
    /\ node # NullNode
    /\ data[node] = lkey[t]
    /\ lpc' = [lpc EXCEPT ![t] = "unlink"]
    /\ UNCHANGED <<nnext, data, lockedBy, alloc, freed, lop, lkey, cursor, lret,
                   ldone, nonSet, wasAbsent>>

\* remove: *node.next.lock().unwrap() is read, the cursor's pointer is set to
\* it, the node is freed; return true.
RemoveUnlink(t) ==
    LET node == CursorNode(t) IN
    /\ lpc[t] = "unlink"
    /\ lockedBy[node] = Unlocked
    /\ nnext' = [nnext EXCEPT ![cursor[t]] = nnext[node]]
    /\ freed' = freed \cup {node}
    /\ SetReturn(t, TRUE)
    /\ UNCHANGED <<data, alloc, lop, lkey, cursor, nonSet>>
    /\ NoteAbsent

NextSet ==
    \/ \E t \in SetThreads, k \in SetKeys :
          \E op \in {"insert", "remove", "contains"} : SetCall(t, op, k)
    \/ \E t \in SetThreads : LockHead(t)
    \/ \E t \in SetThreads : InsertPresent(t)
    \/ \E t \in SetThreads : InsertNode(t)
    \/ \E t \in SetThreads : InsertAdvance(t)
    \/ \E t \in SetThreads : FindAdvance(t)
    \/ \E t \in SetThreads : ContainsReturn(t)
    \/ \E t \in SetThreads : RemoveAbsent(t)
    \/ \E t \in SetThreads : RemoveFound(t)
    \/ \E t \in SetThreads : RemoveUnlink(t)

SpecSet == Init /\ [][NextSet]_vars

\* C20. FineGrainedListSet stays a sorted set: in every state of any
\* interleaving of insert, remove and contains calls, the keys reachable from
\* head are strictly increasing (sorted, without duplicates).
SortedSet ==
    /\ Len(ListKeys) <= MaxNodes
    /\ \A i \in 1 .. Len(ListKeys) - 1 : ListKeys[i] < ListKeys[i + 1]

\* The list holds two keys, inserted by different threads; a remove has found
\* its key in the first node and waits for the lock of that node, which an
\* insert that is further down the list still holds.
SortedSetWitness ==
    /\ Len(ListKeys) >= 2
    /\ \E t, u \in SetThreads :
          /\ t # u
          /\ lpc[t] = "unlink"
          /\ lockedBy[CursorNode(t)] = u
          /\ lop[u] = "insert"
          /\ ldone[u] > 0

\* The requests of b for which no decrement of count has been issued yet.
Unresolved(b) ==
    {i \in 1 .. NumRequests(b) :
        selfDecs[<<b, i>>] + predDecs[<<b, i>>] = 0}

\* C22. Counter invariant: a behaviour's count starts at its number of
\* requests plus 1 and always equals the number of its requests not yet
\* resolved, plus 1 while the final decrement of schedule has not been
\* issued; each request causes one decrement, by its own start_enqueue (the
\* previous tail was null) or by its predecessor's release, never both; every
\* change of a count is a decrement by 1 of a count above 0.
CounterInvariant ==
    /\ [](\A b \in Beh : Created(b) =>
            /\ count[b] = Cardinality(Unresolved(b))
                            + (IF spc[b] = "returned" THEN 0 ELSE 1)
            /\ spc[b] \in {"swap", "final"} /\ si[b] = 1 /\ swaps[b] = <<>>
                  => count[b] = NumRequests(b) + 1
            /\ \A i \in 1 .. NumRequests(b) :
                  /\ selfDecs[<<b, i>>] + predDecs[<<b, i>>] <= 1
                  /\ selfDecs[<<b, i>>] = 1 => pred[<<b, i>>] = NullReq
                  /\ predDecs[<<b, i>>] = 1 =>
                        /\ pred[<<b, i>>] # NullReq
                        /\ woke[pred[<<b, i>>]] = b)
    /\ [][\A b \in Beh : Created(b) /\ count'[b] # count[b] =>
            count[b] > 0 /\ count'[b] = count[b] - 1]_vars

\* A behaviour with two requests has count 0: one request was resolved by its
\* own start_enqueue, the other by the release of its predecessor, after the
\* final decrement of schedule.
CounterInvariantWitness ==
    \E b \in Beh :
        /\ NumRequests(b) = 2
        /\ count[b] = 0
        /\ \E i, j \in 1 .. 2 :
              /\ selfDecs[<<b, i>>] = 1
              /\ predDecs[<<b, j>>] = 1
              /\ woke[pred[<<b, j>>]] = b
        /\ ones[b] = 1 /\ spc[b] = "returned"
        /\ \E r \in ReqIds : woke[r] = b /\ r \in released

\* s is strictly increasing in the order of the cowns' identities.
StrictlyIncreasing(s) ==
    \A i, j \in 1 .. Len(s) : i < j => RequestLess(s[i], s[j])

\* C23. Global order of phase 1: every behaviour swaps its requests into the
\* cown tails in strictly increasing cown-identity order, whatever the order
\* in which the caller listed the handles; two behaviours that both need
\* cowns c < d each present c before d.
GlobalPhaseOrder ==
    /\ \A b \in Beh :
          /\ StrictlyIncreasing(swaps[b])
          /\ Len(swaps[b]) <= NumRequests(b)
          /\ \A i \in 1 .. Len(swaps[b]) : swaps[b][i] = requests[b][i]
          /\ spc[b] \in {"finish", "final", "returned"} =>
                Range(swaps[b]) = Range(requests[b])
    /\ \A b \in Beh : \A c, d \in Cowns :
          Requests(b, c) /\ Requests(b, d) /\ RequestLess(c, d)
              /\ Swapped(b, d) => Swapped(b, c)

\* Two behaviours submitted by different threads have both swapped into the
\* same two cowns, the smaller cown first, and the second one is queued behind
\* the first on both.
GlobalPhaseOrderWitness ==
    \E b1, b2 \in Beh :
        /\ b1 # b2
        /\ caller[b1] # caller[b2]
        /\ Len(swaps[b1]) = 2 /\ Len(swaps[b2]) = 2
        /\ swaps[b1] = swaps[b2]
        /\ \A c \in Range(swaps[b1]) : Before(b1, b2, c)
        /\ epc[b1] = "none"

\* The thread scheduling b1 spins in start_enqueue on the scheduled flag of a
\* request of b2.
WaitsFor(b1, b2) ==
    /\ spc[b1] = "spin"
    /\ ~scheduled[prev[b1]]
    /\ prev[b1][1] = b2

\* There is a chain of at most n waits from a to b.
RECURSIVE WaitsChain(_, _, _)
WaitsChain(a, b, n) ==
    \/ WaitsFor(a, b)
    \/ /\ n > 1
       /\ \E m \in Beh : WaitsFor(a, m) /\ WaitsChain(m, b, n - 1)

\* C24. The waits-for relation among the threads spinning in start_enqueue
\* is acyclic in every reachable state, and what a spinning thread waits for
\* is a behaviour whose schedule call is still in progress, so no set of
\* enqueuing behaviours spins on each other's scheduled flags.
WaitsForAcyclic ==
    /\ \A b \in Beh : ~WaitsChain(b, b, MaxBehaviors)
    /\ \A b1, b2 \in Beh :
          WaitsFor(b1, b2) =>
              spc[b2] \in {"swap", "spin", "store", "grant", "finish"}

\* A thread spins on the flag of a behaviour that is still in phase 1, about
\* to swap into a second cown that the spinning behaviour needs too, and that
\* was itself listed by its caller the other way round.
WaitsForAcyclicWitness ==
    \E b1, b2 \in Beh :
        /\ WaitsFor(b2, b1)
        /\ spc[b1] = "swap"
        /\ NumRequests(b1) = 2 /\ NumRequests(b2) = 2
        /\ requests[b1] = requests[b2]

\* C25. Whenever a request's scheduled flag is true, every request of the
\* same behaviour has been swapped into its cown's tail (phase 1 is over); the
\* flag is set once, by a store that finds it false, and is never cleared.
ScheduledAfterPhaseOne ==
    /\ [](\A b \in Beh : \A i \in 1 .. NumRequests(b) :
            /\ scheduled[<<b, i>>] =>
                  /\ spc[b] \in {"finish", "final", "returned"}
                  /\ Len(swaps[b]) = NumRequests(b)
                  /\ \A j \in 1 .. NumRequests(b) :
                        Swapped(b, requests[b][j])
            /\ spc[b] = "finish" /\ si[b] = i => ~scheduled[<<b, i>>])
    /\ [][\A r \in ReqIds : scheduled[r] => scheduled'[r]]_vars

\* A request's flag is true although it has not acquired its cown: its
\* behaviour is queued behind one whose body is still running.
ScheduledAfterPhaseOneWitness ==
    \E b1, b2 \in Beh : \E c \in Cowns :
        /\ Before(b1, b2, c)
        /\ scheduled[<<b2, IndexOf(b2, c)>>]
        /\ epc[b1] = "body"
        /\ predDecs[<<b2, IndexOf(b2, c)>>] = 0
        /\ count[b2] > 0

\* Behaviour b follows request r directly in the swap order of r's cown.
DirectSuccessor(b, r) ==
    LET c == TargetOf(r) IN
    \E p \in 1 .. Len(order[c]) - 1 :
        /\ order[c][p] = r[1]
        /\ order[c][p + 1] = b

\* C26. Successor linking: a request's next field is written at most once,
\* only when its scheduled flag is true, and only with the behaviour whose
\* request was swapped into the cown's tail directly after it; each request
\* has at most one successor and the requests of a cown form one chain in
\* swap order.
SuccessorLinking ==
    /\ [][\A r \in ReqIds : next'[r] # next[r] =>
            /\ next[r] = NoBeh
            /\ scheduled[r]
            /\ \E i \in 1 .. NumRequests(next'[r]) : pred[<<next'[r], i>>] = r]_vars
    /\ [](\A r \in ReqIds : next[r] # NoBeh =>
            /\ scheduled[r]
            /\ DirectSuccessor(next[r], r))
    /\ [](\A c \in Cowns : \A p \in 1 .. Len(order[c]) :
            LET r == RequestOn(order[c][p], c) IN
            IF p = 1 THEN pred[r] = NullReq
            ELSE LET q == RequestOn(order[c][p - 1], c) IN
                 /\ pred[r] \in {NullReq, q}
                 /\ q \notin released => pred[r] = q
                 /\ next[q] \in {NoBeh, r[1]})
    /\ [](\A c \in Cowns : NoDup(order[c]))

\* Three behaviours are chained on one cown: the first request's next is the
\* second behaviour, the second request's next is the third.
SuccessorLinkingWitness ==
    \E c \in Cowns :
        /\ Len(order[c]) = 3
        /\ next[RequestOn(order[c][1], c)] = order[c][2]
        /\ next[RequestOn(order[c][2], c)] = order[c][3]

\* The requests that have been swapped into cown c, oldest first.
SwappedInto(c) == [p \in 1 .. Len(order[c]) |-> RequestOn(order[c][p], c)]

\* C27. Tail-pointer invariant: a cown's last pointer is null if and only if
\* every request ever swapped into it has been released; otherwise it points
\* to the most recently swapped-in request, which is not yet released; once
\* all submitted behaviours have completed, every cown's last is null.
TailPointer ==
    /\ \A c \in Cowns :
          LET q == SwappedInto(c) IN
          /\ last[c] = NullReq <=> \A p \in 1 .. Len(q) : q[p] \in released
          /\ last[c] # NullReq =>
                /\ last[c] = q[Len(q)]
                /\ last[c] \notin released
    /\ (\A b \in Beh : Created(b) => epc[b] = "dropped")
          => \A c \in Cowns : last[c] = NullReq

\* A cown's queue has emptied and filled again: its last pointer names the
\* third request swapped into it, the first two are released, and the other
\* cown's pointer is back to null after use.
TailPointerWitness ==
    \E c, d \in Cowns :
        /\ Len(order[c]) = 3
        /\ last[c] = RequestOn(order[c][3], c)
        /\ RequestOn(order[c][1], c) \in released
        /\ RequestOn(order[c][2], c) \in released
        /\ woke[RequestOn(order[c][1], c)] = NoBeh
        /\ last[d] = NullReq /\ order[d] # <<>>

\* The Box<Behavior> of b has been dropped.
Destroyed(b) == epc[b] = "dropped"

\* C28. No use after free: a thread spins on the scheduled flag of a request,
\* or stores to its next field, only while the behaviour that owns the request
\* is not destroyed; resolve_one is only called on a behaviour that is not
\* destroyed; a cown's last never points to a request of a destroyed
\* behaviour; a behaviour is taken over by one spawned task (one
\* Box::from_raw) and destroyed once, by that task.
NoUseAfterFree ==
    /\ [](\A b \in Beh :
            /\ spc[b] \in {"spin", "store"} => ~Destroyed(prev[b][1])
            /\ spc[b] \in {"swap", "spin", "store", "grant", "finish", "final"}
                  => ~Destroyed(b)
            /\ epc[b] = "resolve" =>
                  /\ next[<<b, ei[b]>>] # NoBeh
                  /\ ~Destroyed(next[<<b, ei[b]>>])
            /\ epc[b] = "relspin" => ~Destroyed(b)
            /\ spawns[b] <= 1
            /\ Destroyed(b) => spawns[b] = 1 /\ runs[b] = 1)
    /\ [](\A c \in Cowns : last[c] # NullReq => ~Destroyed(last[c][1]))
    /\ [][\A b \in Beh : Destroyed(b) => Destroyed(b)']_vars

\* A behaviour has been destroyed after it resolved its successor, whose
\* schedule call had spun on its flag and stored into its next field; the
\* successor is running.
NoUseAfterFreeWitness ==
    \E b1, b2 \in Beh : \E r \in ReqIds :
        /\ r[1] = b1
        /\ Destroyed(b1)
        /\ woke[r] = b2
        /\ pred[RequestOn(b2, TargetOf(r))] = r
        /\ epc[b2] = "body"

\* The body of b has returned.
BodyReturned(b) ==
    runs[b] = 1 /\ epc[b] \in {"load", "cas", "relspin", "resolve", "end", "dropped"}

\* C29. After a behaviour's body returns, release is called once on each of
\* its requests, in the sorted order of the requests; the behaviour is
\* destroyed only after the last release has returned, and no request is
\* released before the body has returned.
ReleaseInOrder ==
    \A b \in Beh :
        /\ relOrder[b] = [i \in 1 .. Len(relOrder[b]) |-> i]
        /\ Len(relOrder[b]) <= NumRequests(b)
        /\ \A i \in 1 .. NumRequests(b) :
              <<b, i>> \in released <=> i \in Range(relOrder[b])
        /\ StrictlyIncreasing(requests[b])
        /\ relOrder[b] # <<>> => BodyReturned(b)
        /\ epc[b] \in {"load", "cas", "relspin", "resolve"} =>
              ei[b] = Len(relOrder[b]) + 1
        /\ epc[b] \in {"end", "dropped"} => Len(relOrder[b]) = NumRequests(b)

\* A behaviour with two requests has been destroyed after releasing the
\* smaller cown by handing it to a successor and the larger one by clearing
\* its queue.
ReleaseInOrderWitness ==
    \E b \in Beh :
        /\ Destroyed(b)
        /\ relOrder[b] = <<1, 2>>
        /\ woke[<<b, 1>>] # NoBeh
        /\ woke[<<b, 2>>] = NoBeh

\* Task b is inside a release call.
InRelease(b) == epc[b] \in {"load", "cas", "relspin", "resolve"}

\* C30. The release chain never waits on a closure body: when the
\* compare_exchange of release has failed, this request's scheduled flag is
\* true and its successor has swapped itself into the tail, so that the
\* successor's spin can end and its store to next waits for nothing; if the
\* threads inside schedule and the tasks inside release are fairly scheduled,
\* every release call returns, even when no body ever finishes.
ReleaseNeverWaitsOnBody ==
    /\ [](\A b \in Beh : epc[b] = "relspin" =>
            LET r == <<b, ei[b]>> IN
            /\ scheduled[r]
            /\ \E k \in Beh :
                  /\ Requests(k, TargetOf(r))
                  /\ pred[RequestOn(k, TargetOf(r))] = r
                  /\ next[r] \in {NoBeh, k}
                  /\ next[r] = NoBeh =>
                        /\ spc[k] \in {"spin", "store"}
                        /\ prev[k] = r
                        /\ spc[k] = "spin" => ENABLED StartEnqueueSpin(k))
    /\ []<>(\A b \in Beh : ~InRelease(b))

\* A release spins after its compare_exchange failed: the successor has
\* swapped in and not yet stored itself, while the body of another behaviour
\* is running.
ReleaseNeverWaitsOnBodyWitness ==
    \E b, k, o \in Beh :
        /\ epc[b] = "relspin"
        /\ next[<<b, ei[b]>>] = NoBeh
        /\ prev[k] = <<b, ei[b]>>
        /\ spc[k] = "spin"
        /\ o # b /\ epc[o] = "body"

\* ---------------------------------------------------------------------------
\* Growable array (homework/src/hash_table/growable_array.rs)
\* ---------------------------------------------------------------------------

\* get_idx_seg_vec: the digits of the index in base 2^SEGMENT_LOGSIZE, most
\* significant first (the loop pushes the least significant digit first and
\* the vector is reversed at the end).
RECURSIVE get_idx_seg_vec(_)
get_idx_seg_vec(index) ==
    IF index \div SegmentSize = 0
    THEN <<index % SegmentSize>>
    ELSE Append(get_idx_seg_vec(index \div SegmentSize), index % SegmentSize)

h_required(t) == Len(gvec[t])

\* Segment::new(): every pointer of the segment is null.
NewSegment == [d \in Digits |-> NullSeg]

LostRoot(root_seg) == NullSeg

\* children[0] of the segment that becomes the root: the previous root, or null
\* when the previous root was the initial null pointer.
NewRootChild(root_seg) == IF root_seg[2] # 0 THEN root_seg ELSE NullSeg

\* A thread calls get(index).
GetCall(t, index) ==
    /\ gpc[t] = "idle"
    /\ gcalls[t] < MaxGets
    /\ gcalls' = [gcalls EXCEPT ![t] = @ + 1]
    /\ gindex' = [gindex EXCEPT ![t] = index]
    /\ gvec' = [gvec EXCEPT ![t] = get_idx_seg_vec(index)]
    /\ gpc' = [gpc EXCEPT ![t] = "increase_load"]
    /\ UNCHANGED <<root, segs, rootSeg, seg, gpos, got, nonArray>>

\* increase_height_to_needed: the load of the root.
IncreaseLoad(t) ==
    /\ gpc[t] = "increase_load"
    /\ rootSeg' = [rootSeg EXCEPT ![t] = root]
    /\ gpc' = [gpc EXCEPT ![t] = "increase_loop"]
    /\ UNCHANGED <<root, segs, gindex, gvec, seg, gpos, gcalls, got, nonArray>>

\* increase_height_to_needed: the root is too low and the compare_exchange
\* installs a root one level higher, whose children[0] is the previous root.
IncreaseCasOk(t) ==
    /\ gpc[t] = "increase_loop"
    /\ rootSeg[t][2] < h_required(t)
    /\ root = rootSeg[t]
    /\ LET new_seg == <<Len(segs) + 1, rootSeg[t][2] + 1>> IN
        /\ segs' = Append(segs,
                      [NewSegment EXCEPT ![0] = NewRootChild(rootSeg[t])])
        /\ root' = new_seg
        /\ rootSeg' = [rootSeg EXCEPT ![t] = new_seg]
    /\ UNCHANGED <<gpc, gindex, gvec, seg, gpos, gcalls, got, nonArray>>

\* increase_height_to_needed: another thread has replaced the root; the
\* segment allocated for the exchange is dropped and the current root taken.
IncreaseCasFail(t) ==
    /\ gpc[t] = "increase_loop"
    /\ rootSeg[t][2] < h_required(t)
    /\ root # rootSeg[t]
    /\ rootSeg' = [rootSeg EXCEPT ![t] = root]
    /\ UNCHANGED <<root, segs, gpc, gindex, gvec, seg, gpos, gcalls, got,
                   nonArray>>

\* increase_height_to_needed returns: the root is high enough.
IncreaseDone(t) ==
    /\ gpc[t] = "increase_loop"
    /\ rootSeg[t][2] >= h_required(t)
    /\ gpc' = [gpc EXCEPT ![t] = "find_load"]
    /\ UNCHANGED <<root, segs, gindex, gvec, rootSeg, seg, gpos, gcalls, got,
                   nonArray>>

\* find_suitable_root: the load of the root.
FindLoad(t) ==
    /\ gpc[t] = "find_load"
    /\ rootSeg' = [rootSeg EXCEPT ![t] = root]
    /\ gpc' = [gpc EXCEPT ![t] = "find_loop"]
    /\ UNCHANGED <<root, segs, gindex, gvec, seg, gpos, gcalls, got, nonArray>>

\* find_suitable_root: the segment is higher than required, go to children[0].
FindDescend(t) ==
    /\ gpc[t] = "find_loop"
    /\ rootSeg[t][2] > h_required(t)
    /\ rootSeg' = [rootSeg EXCEPT ![t] = segs[rootSeg[t][1]][0]]
    /\ UNCHANGED <<root, segs, gpc, gindex, gvec, seg, gpos, gcalls, got,
                   nonArray>>

\* find_suitable_root returns the segment of the required height (it panics
\* if the segment it reached is lower); get starts its loop there.
FindDone(t) ==
    /\ gpc[t] = "find_loop"
    /\ rootSeg[t][2] <= h_required(t)
    /\ IF rootSeg[t][2] < h_required(t)
       THEN /\ gpc' = [gpc EXCEPT ![t] = "panic"]
            /\ UNCHANGED <<seg, gpos>>
       ELSE /\ gpc' = [gpc EXCEPT ![t] = "walk"]
            /\ seg' = [seg EXCEPT ![t] = rootSeg[t]]
            /\ gpos' = [gpos EXCEPT ![t] = 1]
    /\ UNCHANGED <<root, segs, gindex, gvec, rootSeg, gcalls, got, nonArray>>

\* get: the segment has height 1, the call returns &elements[index_seg].
GetReturn(t) ==
    /\ gpc[t] = "walk"
    /\ gpos[t] <= Len(gvec[t])
    /\ seg[t][2] = 1
    /\ seg[t][1] # 0
    /\ got' = got \cup {<<gindex[t], <<seg[t][1], gvec[t][gpos[t]]>>, root[2]>>}
    /\ gpc' = [gpc EXCEPT ![t] = "idle"]
    /\ UNCHANGED <<root, segs, gindex, gvec, rootSeg, seg, gpos, gcalls,
                   nonArray>>

\* get: an intermediate segment, the load of children[index_seg].  The call
\* panics when the loop has used up the vector, or when the segment is null
\* (as_ref().unwrap()).
WalkLoad(t) ==
    /\ gpc[t] = "walk"
    /\ ~(gpos[t] <= Len(gvec[t]) /\ seg[t][2] = 1 /\ seg[t][1] # 0)
    /\ IF gpos[t] > Len(gvec[t]) \/ seg[t][1] = 0
       THEN /\ gpc' = [gpc EXCEPT ![t] = "panic"]
            /\ UNCHANGED <<seg, gpos>>
       ELSE LET child_seg == segs[seg[t][1]][gvec[t][gpos[t]]] IN
            IF child_seg[1] = 0
            THEN /\ gpc' = [gpc EXCEPT ![t] = "child_cas"]
                 /\ UNCHANGED <<seg, gpos>>
            ELSE /\ seg' = [seg EXCEPT ![t] = child_seg]
                 /\ gpos' = [gpos EXCEPT ![t] = @ + 1]
                 /\ UNCHANGED gpc
    /\ UNCHANGED <<root, segs, gindex, gvec, rootSeg, gcalls, got, nonArray>>

\* get: the child was null and the compare_exchange installs a new segment of
\* height seg.tag() - 1.
ChildCasOk(t) ==
    /\ gpc[t] = "child_cas"
    /\ segs[seg[t][1]][gvec[t][gpos[t]]] = NullSeg
    /\ LET new_child_seg == <<Len(segs) + 1, seg[t][2] - 1>> IN
        /\ segs' = [Append(segs, NewSegment)
                      EXCEPT ![seg[t][1]][gvec[t][gpos[t]]] = new_child_seg]
        /\ seg' = [seg EXCEPT ![t] = new_child_seg]
    /\ gpos' = [gpos EXCEPT ![t] = @ + 1]
    /\ gpc' = [gpc EXCEPT ![t] = "walk"]
    /\ UNCHANGED <<root, gindex, gvec, rootSeg, gcalls, got, nonArray>>

\* get: another thread has set the child; the segment allocated for the
\* exchange is dropped and the current child taken.
ChildCasFail(t) ==
    /\ gpc[t] = "child_cas"
    /\ segs[seg[t][1]][gvec[t][gpos[t]]] # NullSeg
    /\ seg' = [seg EXCEPT ![t] = segs[seg[t][1]][gvec[t][gpos[t]]]]
    /\ gpos' = [gpos EXCEPT ![t] = @ + 1]
    /\ gpc' = [gpc EXCEPT ![t] = "walk"]
    /\ UNCHANGED <<root, segs, gindex, gvec, rootSeg, gcalls, got, nonArray>>

NextArray ==
    \/ \E t \in Getters, index \in Indices : GetCall(t, index)
    \/ \E t \in Getters : IncreaseLoad(t)
    \/ \E t \in Getters : IncreaseCasOk(t)
    \/ \E t \in Getters : IncreaseCasFail(t)
    \/ \E t \in Getters : IncreaseDone(t)
    \/ \E t \in Getters : FindLoad(t)
    \/ \E t \in Getters : FindDescend(t)
    \/ \E t \in Getters : FindDone(t)
    \/ \E t \in Getters : GetReturn(t)
    \/ \E t \in Getters : WalkLoad(t)
    \/ \E t \in Getters : ChildCasOk(t)
    \/ \E t \in Getters : ChildCasFail(t)

SpecArray == Init /\ [][NextArray]_vars

\* The index_seg_vec of an index, padded with leading zeros to a height.
Padded(index, height) ==
    LET v == get_idx_seg_vec(index) IN
    [k \in 1 .. height |->
        IF k <= height - Len(v) THEN 0 ELSE v[k - (height - Len(v))]]

\* The slot found by following the digits from a segment pointer in the tree
\* as it is now; NoAtomic when a segment on the way is missing.
RECURSIVE SlotFrom(_, _)
SlotFrom(ptr, digits) ==
    IF ptr[1] = 0 \/ digits = <<>> THEN NoAtomic
    ELSE IF ptr[2] = 1 THEN <<ptr[1], Head(digits)>>
    ELSE SlotFrom(segs[ptr[1]][Head(digits)], Tail(digits))

\* The slot of an index in the tree as it is now.
SlotAt(index) ==
    IF Len(get_idx_seg_vec(index)) > root[2] THEN NoAtomic
    ELSE SlotFrom(root, Padded(index, root[2]))

\* C21: GrowableArray::get returns the slot at the index: no call panics,
\* every slot a call has returned is still the slot reached from the root for
\* its index, however the root has grown since, calls with the same index
\* have returned the same slot and calls with different indices different
\* slots.
GetReturnsSlotAtIndex ==
    /\ \A t \in Getters : gpc[t] # "panic"
    /\ \A g \in got : SlotAt(g[1]) = g[2]
    /\ \A g \in got : \A h \in got : (g[1] = h[1]) <=> (g[2] = h[2])

\* The same index was returned before and after the root grew, and another
\* index was returned as well.
GetReturnsSlotAtIndexWitness ==
    \E g \in got : \E h \in got : \E k \in got :
        /\ g[1] = h[1]
        /\ g[3] < h[3]
        /\ k[1] # g[1]
        /\ k[2] # g[2]

\* start_enqueue of request r has returned.
StartEnqueueReturned(r) ==
    /\ Created(r[1])
    /\ r[2] <= NumRequests(r[1])
    /\ \/ spc[r[1]] \in {"finish", "final", "returned"}
       \/ si[r[1]] > r[2]

\* C31. A request that finds the cown's tail null is granted at once: a
\* start_enqueue that has returned has resolved its own behaviour (once) if
\* and only if its swap returned null; a swap returns null only when every
\* request swapped into the cown before it has been released, and the
\* resolve_one is the next step of that start_enqueue.
GrantedAtOnce ==
    /\ [](\A b \in Beh : \A i \in 1 .. NumRequests(b) :
            LET r == <<b, i>> IN
            /\ selfDecs[r] \in {0, 1}
            /\ selfDecs[r] = 1 => Swapped(b, TargetOf(r)) /\ pred[r] = NullReq
            /\ StartEnqueueReturned(r) =>
                  (selfDecs[r] = 1 <=> pred[r] = NullReq)
            /\ Swapped(b, TargetOf(r)) /\ pred[r] = NullReq /\ selfDecs[r] = 0
                  => spc[b] = "grant" /\ si[b] = i)
    /\ [][\A c \in Cowns :
            order'[c] # order[c] /\ last[c] = NullReq =>
                \A p \in 1 .. Len(order[c]) : SwappedInto(c)[p] \in released]_vars

\* On one cown, a request was granted by its own start_enqueue after an
\* earlier request had been released, and another request, whose swap
\* returned that request, has returned from start_enqueue without resolving.
GrantedAtOnceWitness ==
    \E c \in Cowns : \E b1, b2, b3 \in Beh :
        /\ Len(order[c]) = 3
        /\ order[c] = <<b1, b2, b3>>
        /\ RequestOn(b1, c) \in released
        /\ pred[RequestOn(b2, c)] = NullReq
        /\ selfDecs[RequestOn(b2, c)] = 1
        /\ pred[RequestOn(b3, c)] = RequestOn(b2, c)
        /\ StartEnqueueReturned(RequestOn(b3, c))
        /\ selfDecs[RequestOn(b3, c)] = 0

\* Every request swapped into one of b's cowns before b's has been released.
PredecessorsReleased(b) ==
    \A c \in Range(requests[b]) :
        /\ Swapped(b, c)
        /\ \A q \in Beh : Before(q, b, c) => RequestOn(q, c) \in released

\* C32. A behaviour waits only for behaviours that precede it in the queue of
\* one of its own cowns: whenever its schedule call has returned and every
\* request swapped earlier into each of its cowns has been released (or there
\* is none), its body has been handed to the executor, whatever the
\* behaviours on other cowns are doing.
WaitsOnlyForPredecessors ==
    \A b \in Beh :
        Created(b) /\ spc[b] = "returned" /\ PredecessorsReleased(b)
            => spawns[b] = 1

\* The body of a behaviour has been handed over after its predecessor on its
\* cown was released, while an older behaviour on a disjoint cown is still in
\* its body.
WaitsOnlyForPredecessorsWitness ==
    \E b1, b2, b3 \in Beh :
        /\ epc[b1] = "body"
        /\ Created(b2) /\ Created(b3)
        /\ b1 < b2 /\ b2 < b3
        /\ Range(requests[b1]) \cap Range(requests[b3]) = {}
        /\ \E c \in Range(requests[b3]) :
              Before(b2, b3, c) /\ RequestOn(b2, c) \in released
        /\ spc[b3] = "returned"
        /\ PredecessorsReleased(b3)
        /\ spawns[b3] = 1

\* b is in the execution interval of its body before and after the step.
Executing(b) == epc[b] = "body" /\ epc'[b] = "body"

\* C33. A cown's payload changes only during the execution interval of a
\* behaviour whose request set contains that cown: every step that changes a
\* payload is a step of a running body that requested the cown and holds it,
\* and changes no other payload; the steps of run_when (Behavior::new,
\* start_enqueue, finish_enqueue, resolve_one) and of release change none;
\* so every payload counts the writes of the behaviours that requested it.
PayloadFrame ==
    /\ [][\A c \in Cowns : value'[c] # value[c] =>
            /\ \E b \in Beh :
                  /\ Executing(b)
                  /\ Requests(b, c)
                  /\ Holds(b, c)
                  /\ ei'[b] = ei[b] + 1
            /\ \A x \in Cowns \ {c} : value'[x] = value[x]
            /\ UNCHANGED <<nb, requests, count, spc, si, last, next, scheduled,
                           spawns, released>>]_vars
    /\ [](\A c \in Cowns :
            /\ \A b \in wrote[c] : Requests(b, c) /\ runs[b] = 1
            /\ value[c] = Cardinality(wrote[c]))

\* A body has written to its cown and is still running, while the payload of
\* a cown it did not request holds the one write of a behaviour that has
\* released it, and a third behaviour is in its run_when on that cown.
PayloadFrameWitness ==
    \E b1, b2, b3 \in Beh : \E c1, c2 \in Cowns :
        /\ c1 # c2
        /\ epc[b1] = "body" /\ requests[b1] = <<c1>> /\ wrote[c1] = {b1}
        /\ requests[b2] = <<c2>> /\ <<b2, 1>> \in released
        /\ wrote[c2] = {b2} /\ value[c2] = 1
        /\ requests[b3] = <<c2>> /\ spc[b3] = "final"

\* ------------------------------------------------------------- list set, linearizability
\* The steps of thread t inside a call (the call itself is up to the caller).
SetStep(t) ==
    \/ LockHead(t)
    \/ InsertPresent(t)
    \/ InsertNode(t)
    \/ InsertAdvance(t)
    \/ FindAdvance(t)
    \/ ContainsReturn(t)
    \/ RemoveAbsent(t)
    \/ RemoveFound(t)
    \/ RemoveUnlink(t)

\* Every thread that is inside a call keeps taking steps (a thread blocked in
\* Mutex::lock continues once the mutex is free).
FairSpecSet == SpecSet /\ \A t \in SetThreads : WF_vars(SetStep(t))

\* The set of keys the list holds.
KeySet == Range(ListKeys)

\* Thread t returns in this step.
Returns(t) == lpc[t] # "idle" /\ lpc'[t] = "idle"

\* The step in which t returns is, or follows, a point of its call at which a
\* sequential set holding the list's keys gives the same result: a
\* successful insert or remove changes the list in the returning step; an
\* insert that returns false and a contains that returns true see the key
\* in the list in that step; a remove or contains that returns false has
\* seen the list without the key at some moment since the call.
ReturnsAsSequentialSet(t) ==
    LET k == lkey[t] IN
    CASE lop[t] = "insert" ->
            IF lret'[t] THEN k \notin KeySet /\ KeySet' = KeySet \cup {k}
                        ELSE k \in KeySet /\ KeySet' = KeySet
      [] lop[t] = "remove" ->
            IF lret'[t] THEN k \in KeySet /\ KeySet' = KeySet \ {k}
                        ELSE wasAbsent[t] /\ KeySet' = KeySet
      [] OTHER ->
            /\ KeySet' = KeySet
            /\ IF lret'[t] THEN k \in KeySet ELSE wasAbsent[t]

\* C34. FineGrainedListSet is linearizable with respect to a sequential set
\* (the keys of the list): insert(k) returns true iff k was absent and then k
\* is present, remove(k) returns true iff k was present and then k is
\* absent, contains(k) returns whether k is present, each at a point between
\* its call and its return; no other step changes the keys; and every call
\* returns.
Linearizable ==
    /\ [][/\ \A t \in SetThreads : Returns(t) => ReturnsAsSequentialSet(t)
          /\ (\A t \in SetThreads : ~Returns(t)) => KeySet' = KeySet]_vars
    /\ []<>(\A t \in SetThreads : lpc[t] = "idle")

\* A contains call has reached the end of the list and is about to return
\* false, while its key, inserted behind its cursor by the other thread since
\* the call, is in the list.
LinearizableWitness ==
    \E t, u \in SetThreads :
        /\ t # u
        /\ lpc[t] = "walk" /\ lop[t] = "contains"
        /\ CursorNode(t) = NullNode
        /\ lkey[t] \in KeySet
        /\ wasAbsent[t]
        /\ lop[u] = "insert" /\ lkey[u] = lkey[t] /\ lret[u] /\ lpc[u] = "idle"

\* ---------------------------------------------------------------------------
\* Optimistic list set (homework/src/list_set/optimistic_fine_grained.rs)
\* ---------------------------------------------------------------------------

\* SeqLock (cs431::lock::seqlock): read_lock returns the sequence number once
\* it is even; validate compares the number read with the current one;
\* upgrade is a compare-exchange from the number read to the next (odd) one;
\* write_lock waits for an even number and makes it odd; dropping a
\* WriteGuard moves on to the next even number.  ReadGuard::finish validates
\* and forgets the guard.
NotWriteLocked(c) == oseq[c] % 2 = 0
Validate(t) == oseq[oprev[t]] = opseq[t]

\* The keys of the nodes reachable from node n, in list order.
RECURSIVE OptKeysFrom(_, _)
OptKeysFrom(n, fuel) ==
    IF n = NullNode \/ fuel = 0 THEN <<>>
    ELSE <<odata[n]>> \o OptKeysFrom(onext[n], fuel - 1)

\* The set the list stands for: the keys reachable from head, without the
\* keys of the removes that hold the write lock of their cursor (a remove
\* takes effect when its upgrade succeeds, an insert with its store).
OptKeySet ==
    Range(OptKeysFrom(onext[HeadCell], MaxNodes + 1))
        \ {okey[t] : t \in {u \in SetThreads :
                oop[u] = "remove" /\ opc[u] \in {"wlock", "unlink"}}}

\* The set becomes K: what the calls in progress have seen of their keys.
OptNote(K) ==
    /\ oAbsent' = [u \in SetThreads |->
          oAbsent[u] \/ (opc[u] # "idle" /\ okey[u] \notin K)]
    /\ oPresent' = [u \in SetThreads |->
          oPresent[u] \/ (opc[u] # "idle" /\ okey[u] \in K)]

\* The call returns r.
OptReturn(t, r) ==
    /\ oret' = [oret EXCEPT ![t] = r]
    /\ odone' = [odone EXCEPT ![t] = @ + 1]
    /\ opc' = [opc EXCEPT ![t] = "idle"]

\* The cursor moves on to the next field of the node it points to:
\* curr_node.next.read_lock() comes next (the old guard is finished).
OptAdvance(t) ==
    /\ otarget' = [otarget EXCEPT ![t] = ocurr[t]]
    /\ opc' = [opc EXCEPT ![t] = "rlock"]

\* A thread calls insert, remove or contains; pin(), then head().
OptCall(t, op, k) ==
    /\ opc[t] = "idle"
    /\ odone[t] < MaxOps
    /\ oop' = [oop EXCEPT ![t] = op]
    /\ okey' = [okey EXCEPT ![t] = k]
    /\ otarget' = [otarget EXCEPT ![t] = HeadCell]
    /\ opc' = [opc EXCEPT ![t] = "rlock"]
    /\ oAbsent' = [oAbsent EXCEPT ![t] = k \notin OptKeySet]
    /\ oPresent' = [oPresent EXCEPT ![t] = k \in OptKeySet]
    /\ UNCHANGED <<onext, oseq, odata, oalloc, oprev, opseq, ocurr, oret, odone,
                   nonOpt>>

\* read_lock() on head or on curr_node.next: the new ReadGuard of the cursor.
ReadLock(t) ==
    /\ opc[t] = "rlock"
    /\ NotWriteLocked(otarget[t])
    /\ oprev' = [oprev EXCEPT ![t] = otarget[t]]
    /\ opseq' = [opseq EXCEPT ![t] = oseq[otarget[t]]]
    /\ opc' = [opc EXCEPT ![t] = "load"]
    /\ UNCHANGED <<onext, oseq, odata, oalloc, oop, okey, otarget, ocurr, oret,
                   odone, oAbsent, oPresent, nonOpt>>

\* cursor.curr = cursor.prev.load(..)
Load(t) ==
    /\ opc[t] = "load"
    /\ ocurr' = [ocurr EXCEPT ![t] = onext[oprev[t]]]
    /\ opc' = [opc EXCEPT ![t] = "check"]
    /\ UNCHANGED <<onext, oseq, odata, oalloc, oop, okey, otarget, oprev, opseq,
                   oret, odone, oAbsent, oPresent, nonOpt>>

\* contains: Cursor::find leaves its loop because validate() fails and
\* returns Err(()); contains maps Err to false.
ContainsInvalid(t) ==
    /\ opc[t] = "check" /\ oop[t] = "contains"
    /\ ~Validate(t)
    /\ OptReturn(t, FALSE)
    /\ UNCHANGED <<onext, oseq, odata, oalloc, oop, okey, otarget, oprev, opseq,
                   ocurr, oAbsent, oPresent, nonOpt>>

\* contains: the guard is valid and find returns Ok: the key is in the node
\* under the cursor (true), or the cursor is at the end of the list (false).
ContainsFound(t) ==
    /\ opc[t] = "check" /\ oop[t] = "contains"
    /\ Validate(t)
    /\ ocurr[t] = NullNode \/ (ocurr[t] # NullNode /\ odata[ocurr[t]] = okey[t])
    /\ OptReturn(t, ocurr[t] # NullNode)
    /\ UNCHANGED <<onext, oseq, odata, oalloc, oop, okey, otarget, oprev, opseq,
                   ocurr, oAbsent, oPresent, nonOpt>>

\* contains: the guard is valid and another key is under the cursor.
ContainsAdvance(t) ==
    /\ opc[t] = "check" /\ oop[t] = "contains"
    /\ Validate(t)
    /\ ocurr[t] # NullNode
    /\ odata[ocurr[t]] # okey[t]
    /\ OptAdvance(t)
    /\ UNCHANGED <<onext, oseq, odata, oalloc, oop, okey, oprev, opseq, ocurr,
                   oret, odone, oAbsent, oPresent, nonOpt>>

\* insert: `if !cur.prev.validate() { continue; }`: the loop starts again
\* with the same cursor.
InsertInvalid(t) ==
    /\ opc[t] = "check" /\ oop[t] = "insert"
    /\ ~Validate(t)
    /\ UNCHANGED <<optVars, nonOpt>>

\* insert: Less, the cursor moves on.
InsertLess(t) ==
    /\ opc[t] = "check" /\ oop[t] = "insert"
    /\ Validate(t)
    /\ ocurr[t] # NullNode
    /\ odata[ocurr[t]] < okey[t]
    /\ OptAdvance(t)
    /\ UNCHANGED <<onext, oseq, odata, oalloc, oop, okey, oprev, opseq, ocurr,
                   oret, odone, oAbsent, oPresent, nonOpt>>

\* insert: Equal, return false.
InsertEqual(t) ==
    /\ opc[t] = "check" /\ oop[t] = "insert"
    /\ Validate(t)
    /\ ocurr[t] # NullNode
    /\ odata[ocurr[t]] = okey[t]
    /\ OptReturn(t, FALSE)
    /\ UNCHANGED <<onext, oseq, odata, oalloc, oop, okey, otarget, oprev, opseq,
                   ocurr, oAbsent, oPresent, nonOpt>>

\* insert: Greater or the end of the list, break 'outer.
InsertBreak(t) ==
    /\ opc[t] = "check" /\ oop[t] = "insert"
    /\ Validate(t)
    /\ ocurr[t] = NullNode \/ (ocurr[t] # NullNode /\ odata[ocurr[t]] > okey[t])
    /\ opc' = [opc EXCEPT ![t] = "upgrade"]
    /\ UNCHANGED <<onext, oseq, odata, oalloc, oop, okey, otarget, oprev, opseq,
                   ocurr, oret, odone, oAbsent, oPresent, nonOpt>>

\* insert, remove: cur.prev.upgrade().unwrap(): the write lock is taken if
\* the sequence number is still the one read, otherwise unwrap panics.
Upgrade(t) ==
    /\ opc[t] = "upgrade"
    /\ IF Validate(t)
       THEN /\ oseq' = [oseq EXCEPT ![oprev[t]] = @ + 1]
            /\ opc' = [opc EXCEPT ![t] =
                          IF oop[t] = "insert" THEN "store" ELSE "wlock"]
       ELSE /\ opc' = [opc EXCEPT ![t] = "panicked"]
            /\ UNCHANGED oseq
    /\ OptNote(IF Validate(t) /\ oop[t] = "remove"
               THEN OptKeySet \ {okey[t]} ELSE OptKeySet)
    /\ UNCHANGED <<onext, odata, oalloc, oop, okey, otarget, oprev, opseq, ocurr,
                   oret, odone, nonOpt>>

\* insert: write_guard.store(Node::new(key, cur.curr))
InsertStore(t) ==
    LET new == oalloc + 1 IN
    /\ opc[t] = "store"
    /\ oalloc' = new
    /\ odata' = [odata EXCEPT ![new] = okey[t]]
    /\ onext' = [onext EXCEPT ![new] = ocurr[t], ![oprev[t]] = new]
    /\ opc' = [opc EXCEPT ![t] = "unlock"]
    /\ OptNote(OptKeySet \cup {okey[t]})
    /\ UNCHANGED <<oseq, oop, okey, otarget, oprev, opseq, ocurr, oret, odone,
                   nonOpt>>

\* insert: the WriteGuard is dropped, return true.
InsertUnlock(t) ==
    /\ opc[t] = "unlock" /\ oop[t] = "insert"
    /\ oseq' = [oseq EXCEPT ![oprev[t]] = @ + 1]
    /\ OptReturn(t, TRUE)
    /\ UNCHANGED <<onext, odata, oalloc, oop, okey, otarget, oprev, opseq, ocurr,
                   oAbsent, oPresent, nonOpt>>

\* remove: validate() fails, `continue 'outer`: a new cursor from head.
RemoveInvalid(t) ==
    /\ opc[t] = "check" /\ oop[t] = "remove"
    /\ ~Validate(t)
    /\ otarget' = [otarget EXCEPT ![t] = HeadCell]
    /\ opc' = [opc EXCEPT ![t] = "rlock"]
    /\ UNCHANGED <<onext, oseq, odata, oalloc, oop, okey, oprev, opseq, ocurr,
                   oret, odone, oAbsent, oPresent, nonOpt>>

\* remove: the end of the list or Greater, return false.
RemoveNotFound(t) ==
    /\ opc[t] = "check" /\ oop[t] = "remove"
    /\ Validate(t)
    /\ ocurr[t] = NullNode \/ (ocurr[t] # NullNode /\ odata[ocurr[t]] > okey[t])
    /\ OptReturn(t, FALSE)
    /\ UNCHANGED <<onext, oseq, odata, oalloc, oop, okey, otarget, oprev, opseq,
                   ocurr, oAbsent, oPresent, nonOpt>>

\* remove: Less, the cursor moves on.
RemoveLess(t) ==
    /\ opc[t] = "check" /\ oop[t] = "remove"
    /\ Validate(t)
    /\ ocurr[t] # NullNode
    /\ odata[ocurr[t]] < okey[t]
    /\ OptAdvance(t)
    /\ UNCHANGED <<onext, oseq, odata, oalloc, oop, okey, oprev, opseq, ocurr,
                   oret, odone, oAbsent, oPresent, nonOpt>>

\* remove: Equal and the guard is still valid; upgrade comes next.
RemoveEqual(t) ==
    /\ opc[t] = "check" /\ oop[t] = "remove"
    /\ Validate(t)
    /\ ocurr[t] # NullNode
    /\ odata[ocurr[t]] = okey[t]
    /\ opc' = [opc EXCEPT ![t] = "upgrade"]
    /\ UNCHANGED <<onext, oseq, odata, oalloc, oop, okey, otarget, oprev, opseq,
                   ocurr, oret, odone, oAbsent, oPresent, nonOpt>>

\* remove: curr_node.next.write_lock()
RemoveWriteLock(t) ==
    /\ opc[t] = "wlock"
    /\ NotWriteLocked(ocurr[t])
    /\ oseq' = [oseq EXCEPT ![ocurr[t]] = @ + 1]
    /\ opc' = [opc EXCEPT ![t] = "unlink"]
    /\ UNCHANGED <<onext, odata, oalloc, oop, okey, otarget, oprev, opseq, ocurr,
                   oret, odone, oAbsent, oPresent, nonOpt>>

\* remove: write_guard.store(write_guard_next.load(..)); defer_destroy
RemoveStore(t) ==
    /\ opc[t] = "unlink"
    /\ onext' = [onext EXCEPT ![oprev[t]] = onext[ocurr[t]]]
    /\ opc' = [opc EXCEPT ![t] = "unlock"]
    /\ UNCHANGED <<oseq, odata, oalloc, oop, okey, otarget, oprev, opseq, ocurr,
                   oret, odone, oAbsent, oPresent, nonOpt>>

\* remove: both WriteGuards are dropped, return true.
RemoveUnlock(t) ==
    /\ opc[t] = "unlock" /\ oop[t] = "remove"
    /\ oseq' = [oseq EXCEPT ![oprev[t]] = @ + 1, ![ocurr[t]] = @ + 1]
    /\ OptReturn(t, TRUE)
    /\ UNCHANGED <<onext, odata, oalloc, oop, okey, otarget, oprev, opseq, ocurr,
                   oAbsent, oPresent, nonOpt>>

\* The steps of thread t inside a call.
OptStep(t) ==
    \/ ReadLock(t)
    \/ Load(t)
    \/ ContainsInvalid(t)
    \/ ContainsFound(t)
    \/ ContainsAdvance(t)
    \/ InsertInvalid(t)
    \/ InsertLess(t)
    \/ InsertEqual(t)
    \/ InsertBreak(t)
    \/ Upgrade(t)
    \/ InsertStore(t)
    \/ InsertUnlock(t)
    \/ RemoveInvalid(t)
    \/ RemoveNotFound(t)
    \/ RemoveLess(t)
    \/ RemoveEqual(t)
    \/ RemoveWriteLock(t)
    \/ RemoveStore(t)
    \/ RemoveUnlock(t)

NextOpt ==
    \/ \E t \in SetThreads, k \in SetKeys :
          \E op \in {"insert", "remove", "contains"} : OptCall(t, op, k)
    \/ \E t \in SetThreads : ReadLock(t)
    \/ \E t \in SetThreads : Load(t)
    \/ \E t \in SetThreads : ContainsInvalid(t)
    \/ \E t \in SetThreads : ContainsFound(t)
    \/ \E t \in SetThreads : ContainsAdvance(t)
    \/ \E t \in SetThreads : InsertInvalid(t)
    \/ \E t \in SetThreads : InsertLess(t)
    \/ \E t \in SetThreads : InsertEqual(t)
    \/ \E t \in SetThreads : InsertBreak(t)
    \/ \E t \in SetThreads : Upgrade(t)
    \/ \E t \in SetThreads : InsertStore(t)
    \/ \E t \in SetThreads : InsertUnlock(t)
    \/ \E t \in SetThreads : RemoveInvalid(t)
    \/ \E t \in SetThreads : RemoveNotFound(t)
    \/ \E t \in SetThreads : RemoveLess(t)
    \/ \E t \in SetThreads : RemoveEqual(t)
    \/ \E t \in SetThreads : RemoveWriteLock(t)
    \/ \E t \in SetThreads : RemoveStore(t)
    \/ \E t \in SetThreads : RemoveUnlock(t)

SpecOpt == Init /\ [][NextOpt]_vars

\* Every thread that is inside a call keeps taking steps.
FairSpecOpt == SpecOpt /\ \A t \in SetThreads : WF_vars(OptStep(t))

\* Thread t returns in this step.
OptReturns(t) == opc[t] # "idle" /\ opc'[t] = "idle"

\* C35. OptimisticFineGrainedListSet::contains(k) is linearizable: a call
\* that returns false has seen the list without k at some moment between
\* call and return (so it returns true when k is in the set for the whole
\* duration of the call, whatever concurrent calls on other keys do to the
\* guards of its cursor), and a call that returns true has seen the list
\* with k.
ContainsLinearizable ==
    [][\A t \in SetThreads :
          OptReturns(t) /\ oop[t] = "contains" =>
              IF oret'[t] THEN oPresent[t] ELSE oAbsent[t]]_vars

\* C36. insert and remove always return with a correct result under
\* contention: no call panics; an insert that returns true has seen the set
\* without its key and one that returns false has seen the set with it, a
\* remove that returns true has seen the set with its key and one that
\* returns false has seen the set without it; and every call returns.
InsertRemoveReturn ==
    /\ [](\A t \in SetThreads : opc[t] # "panicked")
    /\ [][\A t \in SetThreads :
            OptReturns(t) /\ oop[t] \in {"insert", "remove"} =>
                IF oret'[t] = (oop[t] = "insert")
                THEN oAbsent[t] ELSE oPresent[t]]_vars
    /\ []<>(\A t \in SetThreads : opc[t] = "idle")

\* ---------------------------------------------------------------------------
\* Split-ordered list (homework/src/hash_table/split_ordered_list.rs)
\* ---------------------------------------------------------------------------

\* List::harris_insert (cs431::lockfree::list): a node with the key and the
\* value is linked into the sorted list unless the key is already there.
harris_insert(list, key, v) ==
    IF list[key] = NoEntry THEN [list EXCEPT ![key] = v] ELSE list

\* Cursor::find_harris from the head of the list: whether a node with the key
\* is in the list.
find_harris(list, key) == list[key] # NoEntry

\* lookup_bucket(index): the slot of the bucket array is read; when it is null
\* a node with key `index` and an uninitialized value is inserted into the
\* list (the slot is not written); then the key `index` is searched from the
\* head.  The list afterwards, and `found`.
lookup_bucket(list, index) ==
    LET after == IF sbuckets[index] = NullNode
                 THEN harris_insert(list, index, Uninit)
                 ELSE list
    IN [list |-> after, found |-> find_harris(after, index)]

\* find(key): lookup_bucket(*key).
find(list, key) == lookup_bucket(list, key)

\* MaybeUninit::assume_init_ref / assume_init_read: the value, and any value
\* at all when the node was created with MaybeUninit::uninit().
assume_init(v) == IF v = Uninit THEN MapValues ELSE {v}

\* What a map returns for lookup(k).
MapLookupResult(m, k) ==
    IF m[k] = NoEntry THEN <<"None", 0>> ELSE <<"Some", m[k]>>

\* lookup(key)
MapLookup(k) ==
    LET f == find(slist, k) IN
    /\ snops < MaxMapOps
    /\ snops' = snops + 1
    /\ slist' = f.list
    /\ IF f.found
       THEN \E v \in assume_init(f.list[k]) : sres' = <<"Some", v>>
       ELSE sres' = <<"None", 0>>
    /\ sexp' = MapLookupResult(amap, k)
    /\ UNCHANGED <<sbuckets, ssize, scount, amap, nonSplit>>

\* insert(key, value)
MapInsert(k, new_value) ==
    LET f == find(slist, k)
        size == ssize
    IN
    /\ snops < MaxMapOps
    /\ snops' = snops + 1
    /\ IF f.found
       THEN /\ \E old_value \in assume_init(f.list[k]) :
                  sres' = <<"Err", old_value>>
            /\ slist' = f.list
            /\ UNCHANGED scount
       ELSE /\ slist' = harris_insert(
                  IF size * LOAD_FACTOR <= scount
                  THEN lookup_bucket(f.list, size * 2).list
                  ELSE f.list,
                  k, new_value)
            /\ scount' = (scount + 1) % UsizeMod
            /\ sres' = <<"Ok", 0>>
    /\ IF amap[k] = NoEntry
       THEN amap' = [amap EXCEPT ![k] = new_value] /\ sexp' = <<"Ok", 0>>
       ELSE amap' = amap /\ sexp' = <<"Err", new_value>>
    /\ UNCHANGED <<sbuckets, ssize, nonSplit>>

\* delete(key)
MapDelete(k) ==
    LET f == find(slist, k) IN
    /\ snops < MaxMapOps
    /\ snops' = snops + 1
    /\ IF ~f.found
       THEN /\ sres' = <<"Err", 0>>
            /\ slist' = f.list
            /\ UNCHANGED scount
       ELSE /\ slist' = [f.list EXCEPT ![k] = NoEntry]
            /\ scount' = (scount - 1) % UsizeMod
            /\ \E v \in assume_init(f.list[k]) : sres' = <<"Ok", v>>
    /\ IF amap[k] = NoEntry
       THEN amap' = amap /\ sexp' = <<"Err", 0>>
       ELSE amap' = [amap EXCEPT ![k] = NoEntry] /\ sexp' = <<"Ok", amap[k]>>
    /\ UNCHANGED <<sbuckets, ssize, nonSplit>>

NextSplit ==
    \/ \E k \in MapKeys : MapLookup(k)
    \/ \E k \in MapKeys, v \in MapValues : MapInsert(k, v)
    \/ \E k \in MapKeys : MapDelete(k)

SpecSplit == Init /\ [][NextSplit]_vars

\* C37. SplitOrderedList behaves as a map from keys to values: every call
\* returns what the map described by the calls so far returns: lookup(k)
\* None for a key that was never inserted or was deleted and the value
\* otherwise, insert(k, v) Ok on an absent key and Err with the value handed
\* back on a present key, delete(k) the stored value, making k absent.
BehavesAsMap == sres = sexp

====
